---- MODULE Spec2Model ----
(***************************************************************************)
(* Channel handlers of temba/channels/handlers.py: the per-provider        *)
(* adapters that turn an inbound HTTP request into new messages or status  *)
(* transitions of existing messages.                                       *)
(*                                                                         *)
(* Every handler is an operator that maps (store, request) to (store,      *)
(* response), translated from the get/post method of its class.  Spec      *)
(* handles one request at a time; SpecConc runs two status callbacks       *)
(* concurrently with each database statement as a separate step.           *)
(***************************************************************************)
EXTENDS Integers, Sequences, FiniteSets, TLC

VARIABLES
    channels,   \* Channel table: uuid -> channel row (set up by provisioning)
    msgs,       \* Msg table: sequence of rows, the row's id is its index
    contacts,   \* URNs that resolve to a Contact
    events,     \* side effects fired so far (tasks, triggers, calls, tracking)
    last,       \* the request handled last: request, response, store before
    procs       \* in-flight concurrent status callbacks (SpecConc)

vars == <<channels, msgs, contacts, events, last, procs>>

----------------------------------------------------------------------------
(* Bounds *)

\* most rows the Msg table holds
MaxMsgs == 3

----------------------------------------------------------------------------
(* Message status and direction vocabulary (temba.msgs.models) *)

PENDING == "P"
QUEUED == "Q"
WIRED == "W"
SENT == "S"
DELIVERED == "D"
FAILED == "F"
INTERRUPTED == "I"

OUTGOING == "O"
INCOMING == "I"

OutStatuses == {PENDING, QUEUED, WIRED, SENT, DELIVERED, FAILED}

\* external_id of a message that has none
NoExt == ""
\* media of a message that has none
NoMedia == ""

----------------------------------------------------------------------------
(* Channel types of temba.channels.models.Channel, one per handler class *)

TYPE ==
    [TWIML |-> "TW",
     TWILIO |-> "T",
     TWILIO_MESSAGING_SERVICE |-> "TMS",
     EXTERNAL |-> "EX",
     SHAQODOON |-> "SQ",
     YO |-> "YO",
     M3TECH |-> "M3",
     KANNEL |-> "KN",
     AFRICAS_TALKING |-> "AT",
     ZENVIA |-> "ZV",
     INFOBIP |-> "IB",
     HUB9 |-> "H9",
     HIGH_CONNECTION |-> "HX",
     BLACKMYNA |-> "BM",
     SMSCENTRAL |-> "SC",
     NEXMO |-> "NX",
     VERBOICE |-> "VB",
     VUMI |-> "VM",
     VUMI_USSD |-> "VMU",
     CLICKATELL |-> "CT",
     PLIVO |-> "PL",
     TWITTER |-> "TT",
     START |-> "ST",
     CHIKKA |-> "CK",
     JASMIN |-> "JS",
     MBLOX |-> "MB",
     VIBER |-> "VI",
     LINE |-> "LN",
     GLOBE |-> "GL",
     FACEBOOK |-> "FB",
     TELEGRAM |-> "TG"]

----------------------------------------------------------------------------
(* Text values.  A phone number or address is a sequence of tokens so that *)
(* '+' + number and number[0] are computed as the code computes them.      *)

PLUS == "+"
ChanDigits == "n1"
SenderDigits == "n2"
OtherDigits == "n3"

WithPlus(digits) == <<PLUS, digits>>
Bare(digits) == <<digits>>

StartsWithPlus(num) == Len(num) > 0 /\ num[1] = PLUS
PrependPlus(num) == <<PLUS>> \o num

ChanUuid == <<"u1">>
UnknownUuid == <<"u9">>

\* the uuid a route carries: the channel's, or one no channel has
UuidRoutes == {ChanUuid, UnknownUuid}

\* the uuid of the organization's Nexmo account (org config NEXMO_UUID)
OrgNexmoUuid == <<"nx1">>

\* the API id of the channel's Clickatell account (channel config CONFIG_API_ID)
ChanApiId == "api1"

\* channel.secret, the token Facebook presents when it verifies the webhook
ChanSecret == "sec1"

\* settings.MAGE_AUTH_TOKEN
MageAuthToken == "mage1"

\* Channel.GET_STARTED, the payload of Facebook's "Get Started" postback
GET_STARTED == "get_started"

\* the secret the provider signs its requests with
ChanToken == "tok1"

----------------------------------------------------------------------------
(* Store *)

Store(m, c, e) == [msgs |-> m, contacts |-> c, events |-> e]

Reply(st, code, body) ==
    [st |-> st, resp |-> [code |-> code, body |-> body, exc |-> ""]]

\* an exception that leaves the handler: the statements already executed
\* stay executed (autocommit), the caller gets a server error
Raise(st, exc) ==
    [st |-> st, resp |-> [code |-> 500, body |-> "", exc |-> exc]]

\* a request: [h, action, uuid, p, env]; p maps the names of the fields the
\* request carries to their values, env holds what the collaborators answer
Has(req, f) == f \in DOMAIN req.p
\* request.POST[name] / get_param(name) of a field that is present
Get(req, f) == req.p[f]
\* the fields of rec without those named in drop
Without(rec, drop) == [k \in (DOMAIN rec) \ drop |-> rec[k]]
MkReq(h, action, uuid, p, env) ==
    [h |-> h, method |-> "POST", action |-> action, uuid |-> uuid, p |-> p, env |-> env]
AsGet(req) == [req EXCEPT !.method = "GET"]
NoEnv == [none |-> TRUE]

\* the decimal strings requests carry, with their int() value; int() of any
\* other string raises ValueError
NumTable ==
    [s \in {"-1", "0", "1", "2", "3", "4", "5", "6", "8", "9", "10", "16", "21",
            "77", "111", "120", "999"} |->
        CASE s = "-1" -> -1 [] s = "0" -> 0 [] s = "1" -> 1 [] s = "2" -> 2
          [] s = "3" -> 3 [] s = "4" -> 4 [] s = "5" -> 5 [] s = "6" -> 6
          [] s = "8" -> 8 [] s = "9" -> 9 [] s = "10" -> 10 [] s = "16" -> 16
          [] s = "21" -> 21 [] s = "77" -> 77 [] s = "111" -> 111
          [] s = "120" -> 120 [] OTHER -> 999]
IsNumeric(s) == s \in DOMAIN NumTable
ToInt(s) == NumTable[s]

MsgIds(st) == 1 .. Len(st.msgs)

\* a first() that answers the first row of the table when nothing matches
First_RowOneWhenNone(ids) == IF ids = {} THEN 1 ELSE CHOOSE i \in ids : \A j \in ids : i <= j

\* QuerySet.first(): the matching row with the smallest id, 0 when none
First(ids) == IF ids = {} THEN 0 ELSE CHOOSE i \in ids : \A j \in ids : i <= j

\* Msg.objects.filter(channel=channel, pk=pk)
ByPk(st, uuid, pk) ==
    {i \in MsgIds(st) : st.msgs[i].channel = uuid /\ IsNumeric(pk) /\ i = ToInt(pk)}

\* Msg.objects.filter(channel=channel, external_id=ext)
ByExt(st, uuid, ext) ==
    {i \in MsgIds(st) : st.msgs[i].channel = uuid /\ st.msgs[i].external_id = ext}

URNFromTel(num) == [scheme |-> "tel", path |-> num]
URNFromParts(scheme, path) == [scheme |-> scheme, path |-> path]

\* Msg.create_incoming: a new inbound row with the next id; the contact of
\* the URN is resolved or created and the handling task is enqueued.
CreateIncoming(st, uuid, urn, text, status, media) ==
    [st EXCEPT
        !.msgs = Append(@, [channel |-> uuid, direction |-> INCOMING,
                            status |-> status, external_id |-> NoExt,
                            urn |-> urn, text |-> text, media |-> media,
                            broadcast |-> FALSE]),
        \* the contact of the URN is created on first sight unless the
        \* organization is anonymized
        !.contacts = IF channels[uuid].is_anon THEN @ ELSE @ \cup {urn},
        !.events = @ \cup {"handle_msg"}]

NewId(st) == Len(st.msgs)

\* Msg.objects.filter(pk=id).update(external_id=ext)
SetExternalId(st, id, ext) == [st EXCEPT !.msgs[id].external_id = ext]

\* Msg.status_sent / status_delivered / fail on a loaded row: the row's
\* status is written, whatever the stored status is
StatusSent(st, id) == [st EXCEPT !.msgs[id].status = SENT]
StatusDelivered(st, id) == [st EXCEPT !.msgs[id].status = DELIVERED]
\* fail() also reports the failure to the channel's health tracking
Fail(st, id) ==
    [st EXCEPT !.msgs[id].status = FAILED, !.events = @ \cup {"track_failed"}]

Fired(st, e) == [st EXCEPT !.events = @ \cup {e}]

\* bcast = sms.first().broadcast; if bcast: bcast.update()
UpdateBroadcast(st, ids) ==
    IF st.msgs[First(ids)].broadcast THEN Fired(st, "broadcast_update") ELSE st

RECURSIVE ApplyAll(_, _, _)
\* for sms_obj in queryset: sms_obj.<op>()
ApplyAll(st, ids, op) ==
    IF ids = {} THEN st
    ELSE LET i == First(ids)
             st1 == CASE op = SENT -> StatusSent(st, i)
                      [] op = DELIVERED -> StatusDelivered(st, i)
                      [] OTHER -> Fail(st, i)
         IN ApplyAll(st1, ids \ {i}, op)

----------------------------------------------------------------------------
(* Channel lookup *)

Dispatchable(ch) == ch.is_active /\ ch.org # "none"

\* Channel.objects.filter(uuid=uuid, is_active=True, channel_type=t)
\*                .exclude(org=None).first()
ChannelByUuid(uuid, ctype) ==
    {u \in DOMAIN channels :
        u = uuid /\ Dispatchable(channels[u]) /\ channels[u].channel_type = ctype}

FirstChannel(us) == IF us = {} THEN <<>> ELSE CHOOSE u \in us : TRUE

----------------------------------------------------------------------------
(* TwimlAPIHandler and TwilioHandler *)

\* URN.normalize_number(number, country): E.164 form of a number that
\* arrived without its leading '+'
NormalizeNumber(num) == IF StartsWithPlus(num) THEN num ELSE PrependPlus(num)

\* a validator that accepts every signature
SignatureValid_Always(req, ch) == TRUE

\* RequestValidator(auth_token).validate(url, request.POST, signature)
SignatureValid(req, ch) ==
    Has(req, "sig") /\ Get(req, "sig") = channels[ch].auth_token

TwimlChannelType(h) == IF h = "twilio" THEN TYPE.TWILIO ELSE TYPE.TWIML

GetRingingChannel(h, to_number) ==
    FirstChannel({u \in DOMAIN channels :
        /\ channels[u].address = to_number
        /\ channels[u].channel_type = TwimlChannelType(h)
        /\ channels[u].role_answer
        /\ Dispatchable(channels[u])})

GetReceiveChannel(h, uuid, to_number) ==
    IF h = "twilio"
    THEN FirstChannel({u \in DOMAIN channels :
            channels[u].address = to_number /\ Dispatchable(channels[u])})
    ELSE FirstChannel(ChannelByUuid(uuid, TYPE.TWIML))

\* how many of the fields MediaUrl0, MediaUrl1, ... the request carries
NumMediaUrls(req) == IF Has(req, "MediaUrls") THEN ToInt(Get(req, "MediaUrls")) ELSE 0

RECURSIVE TwimlMedia(_, _, _, _, _)
\* for i in range(int(NumMedia)): download MediaUrl<i>, create a message
TwimlMedia(req, st, ch, i, n) ==
    IF i >= n THEN Reply(st, 0, "")
    ELSE IF i >= NumMediaUrls(req) THEN Raise(st, "KeyError")
    ELSE TwimlMedia(req,
            CreateIncoming(st, ch, URNFromTel(Get(req, "From")),
                           IF i = 0 THEN "media0" ELSE "media1", PENDING,
                           IF i = 0 THEN "image:media0" ELSE "image:media1"),
            ch, i + 1, n)

TwimlCallback(h, req, st) ==
    IF Has(req, "id") /\ ~IsNumeric(Get(req, "id")) THEN Raise(st, "ValueError")
    ELSE
    LET sms == First({i \in MsgIds(st) : Has(req, "id") /\ i = ToInt(Get(req, "id"))})
    IN  IF sms = 0 THEN Reply(st, 400, "No message found with id")
        ELSE IF ~req.env.connected THEN Reply(st, 400, "No Twilio account is connected")
        \* get_client(channel) goes through the organization of the channel
        ELSE IF channels[st.msgs[sms].channel].org = "none" THEN Raise(st, "AttributeError")
        ELSE IF ~SignatureValid(req, st.msgs[sms].channel)
             THEN Raise(st, "ValidationError: Invalid request signature")
        ELSE LET status == IF Has(req, "SmsStatus") THEN Get(req, "SmsStatus") ELSE ""
                 st1 == CASE status = "sent" -> StatusSent(st, sms)
                          [] status = "delivered" -> StatusDelivered(st, sms)
                          [] status = "failed" -> Fail(st, sms)
                          [] OTHER -> st
             IN Reply(st1, 200, "")

TwimlReceived(h, req, st, to_number) ==
    LET ch == GetReceiveChannel(h, req.uuid, to_number)
    IN  IF ch = <<>> THEN Reply(st, 400, "No active channel found for number")
        ELSE IF TwimlChannelType(h) = TYPE.TWILIO /\ ~req.env.connected
             THEN Reply(st, 400, "No Twilio account is connected")
        ELSE IF ~SignatureValid(req, ch)
             THEN Raise(st, "ValidationError: Invalid request signature")
        ELSE IF ~Has(req, "Body") \/ ~Has(req, "From") THEN Raise(st, "KeyError")
        ELSE IF Has(req, "NumMedia") /\ ~IsNumeric(Get(req, "NumMedia"))
             THEN Raise(st, "ValueError")
        ELSE LET n == IF Has(req, "NumMedia") THEN ToInt(Get(req, "NumMedia")) ELSE 0
                 m == TwimlMedia(req, st, ch, 0, n)
             IN IF m.resp.exc # "" THEN m
                ELSE IF Get(req, "Body") # ""
                     THEN Reply(CreateIncoming(m.st, ch, URNFromTel(Get(req, "From")),
                                               Get(req, "Body"), PENDING, NoMedia),
                                201, "")
                     ELSE Reply(m.st, 201, "")

\* the "call being initiated" block; resp.body = "fallthrough" when the block
\* ends without a return
TwimlRinging(h, req, st, to_number) ==
    LET ch == GetRingingChannel(h, to_number)
    IN  IF ch = <<>> THEN Reply(st, 200, "twiml: no channel configured, hangup")
        ELSE IF TwimlChannelType(h) = TYPE.TWILIO /\ ~req.env.connected
             THEN Reply(st, 400, "No Twilio account is connected")
        ELSE IF SignatureValid(req, ch)
             THEN LET st1 == [st EXCEPT !.contacts = @ \cup {URNFromTel(Get(req, "From"))}]
                  IN IF req.env.flow
                     THEN Reply([st1 EXCEPT !.events = @ \cup {"ivr_call"}],
                                200, "twiml: flow")
                     ELSE Reply([st1 EXCEPT !.events = @ \cup {"trigger_missed_call"}],
                                200, "twiml: hangup")
        ELSE Reply(st, 0, "fallthrough")

TwimlPost(h, req, st) ==
    IF ~Has(req, "To") THEN Raise(st, "AttributeError")
    ELSE
    LET to0 == Get(req, "To")
        to_number == IF ~StartsWithPlus(to0) /\ Has(req, "ToCountry")
                     THEN NormalizeNumber(to0) ELSE to0
        isRinging == /\ to_number # <<>>
                     /\ Has(req, "CallSid")
                     /\ Has(req, "Direction") /\ Get(req, "Direction") = "inbound"
                     /\ Has(req, "CallStatus") /\ Get(req, "CallStatus") = "ringing"
        ring == IF isRinging THEN TwimlRinging(h, req, st, to_number)
                ELSE Reply(st, 0, "fallthrough")
        action == IF Has(req, "action") THEN Get(req, "action") ELSE "received"
    IN  IF ring.resp.body # "fallthrough" THEN ring
        ELSE IF action = "callback" THEN TwimlCallback(h, req, st)
        ELSE IF action = "received" THEN TwimlReceived(h, req, st, to_number)
        ELSE Reply(st, 400, "Not Handled, unknown action")

----------------------------------------------------------------------------
(* TwilioMessagingServiceHandler *)

TwilioMessagingServicePost(req, st) ==
    LET ch == FirstChannel(ChannelByUuid(req.uuid, TYPE.TWILIO_MESSAGING_SERVICE))
    IN  IF ch = <<>> THEN Reply(st, 404, "Channel not found")
        ELSE IF req.action = "receive"
        THEN IF ~req.env.connected THEN Reply(st, 400, "No Twilio account is connected")
             ELSE IF ~SignatureValid(req, ch)
                  THEN Raise(st, "ValidationError: Invalid request signature")
             ELSE IF ~Has(req, "From") \/ ~Has(req, "Body") THEN Raise(st, "KeyError")
             ELSE Reply(CreateIncoming(st, ch, URNFromTel(Get(req, "From")),
                                       Get(req, "Body"), PENDING, NoMedia), 201, "")
        ELSE Reply(st, 400, "Not Handled, unknown action")

----------------------------------------------------------------------------
(* ExternalHandler, and ShaqodoonHandler, YoHandler, M3TechHandler which    *)
(* override get_channel_type only                                          *)

ExternalChannelType(h) ==
    CASE h = "shaqodoon" -> TYPE.SHAQODOON
      [] h = "yo" -> TYPE.YO
      [] h = "m3tech" -> TYPE.M3TECH
      [] OTHER -> TYPE.EXTERNAL

\* the actions the url pattern of the handler lets through
ExternalActions(h) ==
    IF h = "yo" THEN {"received"} ELSE {"sent", "delivered", "failed", "received"}

\* a route parameter of 36 characters is a uuid, any other is an address
ExternalChannel(h, route) ==
    FirstChannel({u \in DOMAIN channels :
        /\ IF route.len36 THEN u = route.val
           ELSE channels[u].address = route.val
                \/ channels[u].address = PrependPlus(route.val)
        /\ Dispatchable(channels[u])
        /\ channels[u].channel_type = ExternalChannelType(h)})

\* get_param(a, get_param(b))
Either(req, a, b) == IF Has(req, a) THEN Get(req, a) ELSE Get(req, b)

ExternalPost(h, req, st) ==
    LET ch == ExternalChannel(h, req.uuid)
        action == req.action
    IN  IF ch = <<>> THEN Reply(st, 400, "Channel with uuid or address not found")
        ELSE IF action \in {"delivered", "failed", "sent"}
        THEN IF ~Has(req, "id") THEN Reply(st, 400, "Missing 'id' parameter, invalid call.")
             ELSE IF ~IsNumeric(Get(req, "id")) THEN Raise(st, "ValueError")
             ELSE LET sms == First(ByPk(st, ch, Get(req, "id")))
                  IN IF sms = 0 THEN Reply(st, 400, "No SMS message with id")
                     ELSE Reply(CASE action = "delivered" -> StatusDelivered(st, sms)
                                  [] action = "sent" -> StatusSent(st, sms)
                                  [] OTHER -> Fail(st, sms),
                                200, "SMS Status Updated")
        ELSE IF action = "received"
        THEN IF ~(Has(req, "from") \/ Has(req, "sender")) \/ Either(req, "from", "sender") = <<>>
             THEN Reply(st, 400, "Missing 'from' or 'sender' parameter, invalid call.")
             ELSE IF ~(Has(req, "text") \/ Has(req, "message"))
             THEN Reply(st, 400, "Missing 'text' or 'message' parameter, invalid call.")
             ELSE IF (Has(req, "date") \/ Has(req, "time"))
                     /\ Either(req, "date", "time") \notin {"", "ts_ok"}
             THEN Raise(st, "ValueError")
             ELSE LET st1 == CreateIncoming(st, ch,
                                URNFromParts(channels[ch].scheme,
                                             Either(req, "from", "sender")),
                                Either(req, "text", "message"), PENDING, NoMedia)
                  IN Reply(st1, 200, "SMS Accepted")
        ELSE Reply(st, 400, "Not handled")

----------------------------------------------------------------------------
(* KannelHandler *)

\* a table that reads code 2 as SENT
KannelStatusChoice_FailedAsSent(code) ==
    CASE code = "1" -> DELIVERED
      [] code = "2" -> SENT
      [] code = "4" -> SENT
      [] code = "8" -> SENT
      [] code = "16" -> FAILED
      [] OTHER -> ""

KannelStatusChoice(code) ==
    CASE code = "1" -> DELIVERED
      [] code = "2" -> FAILED
      [] code = "4" -> SENT
      [] code = "8" -> SENT
      [] code = "16" -> FAILED
      [] OTHER -> ""

KannelPost(req, st) ==
    LET ch == FirstChannel(ChannelByUuid(req.uuid, TYPE.KANNEL))
    IN  IF ch = <<>> THEN Reply(st, 400, "Channel not found for id")
        ELSE IF req.action = "status"
        THEN IF ~Has(req, "id") /\ ~Has(req, "status")
             THEN Reply(st, 400, "Missing one of 'id' or 'status' in request parameters.")
             ELSE IF Has(req, "id") /\ ~IsNumeric(Get(req, "id")) THEN Raise(st, "ValueError")
             ELSE LET sms == IF Has(req, "id") THEN ByPk(st, ch, Get(req, "id")) ELSE {}
                      status == IF Has(req, "status")
                                THEN KannelStatusChoice(Get(req, "status")) ELSE ""
                  IN IF sms = {}
                     THEN Reply(st, 400, "Message with external id not found")
                     ELSE IF status = ""
                     THEN Reply(st, 401, "Unrecognized status code, ignoring message.")
                     ELSE IF status = SENT
                     THEN Reply(ApplyAll(st, {i \in sms : st.msgs[i].status \in
                                                    {PENDING, QUEUED, WIRED}}, SENT),
                                200, "SMS Status Updated")
                     ELSE Reply(ApplyAll(st, sms, status), 200, "SMS Status Updated")
        ELSE IF req.action = "receive"
        THEN IF ~(Has(req, "id") /\ Has(req, "ts") /\ Has(req, "message") /\ Has(req, "sender"))
             THEN Reply(st, 400, "Missing one of 'message', 'sender', 'id' or 'ts' in request parameters.")
             ELSE IF Get(req, "ts") # "ts_ok" THEN Raise(st, "ValueError")
             ELSE LET st1 == CreateIncoming(st, ch, URNFromTel(Get(req, "sender")),
                                            Get(req, "message"), PENDING, NoMedia)
                  IN Reply(SetExternalId(st1, NewId(st1), Get(req, "id")),
                           200, "SMS Accepted")
        ELSE Reply(st, 400, "Not handled")

----------------------------------------------------------------------------
(* AfricasTalkingHandler *)

AfricasTalkingPost(req, st) ==
    LET ch == FirstChannel(ChannelByUuid(req.uuid, TYPE.AFRICAS_TALKING))
    IN  IF req.method = "GET" THEN Reply(st, 400, "ILLEGAL METHOD")
        ELSE IF ch = <<>> THEN Reply(st, 404, "Channel with uuid not found.")
        ELSE IF req.action = "delivery"
        THEN IF ~Has(req, "status") \/ ~Has(req, "id")
             THEN Reply(st, 400, "Missing status or id parameters")
             ELSE LET sms == First(ByExt(st, ch, Get(req, "id")))
                      status == Get(req, "status")
                  IN IF sms = 0 THEN Reply(st, 404, "No SMS message with id")
                     ELSE Reply(CASE status = "Success" -> StatusDelivered(st, sms)
                                  [] status \in {"Sent", "Buffered"} -> StatusSent(st, sms)
                                  [] status \in {"Rejected", "Failed"} -> Fail(st, sms)
                                  [] OTHER -> st,
                                200, "SMS Status Updated")
        ELSE IF req.action = "callback"
        THEN IF ~Has(req, "from") \/ ~Has(req, "text")
             THEN Reply(st, 400, "Missing from or text parameters")
             ELSE Reply(CreateIncoming(st, ch, URNFromTel(Get(req, "from")),
                                       Get(req, "text"), PENDING, NoMedia),
                        200, "SMS Accepted")
        ELSE Reply(st, 400, "Not handled")

----------------------------------------------------------------------------
(* ZenviaHandler *)

ZenviaPost(req, st) ==
    LET ch == FirstChannel(ChannelByUuid(req.uuid, TYPE.ZENVIA))
    IN  IF ch = <<>> THEN Reply(st, 404, "Channel with uuid not found.")
        ELSE IF req.action = "status"
        THEN IF ~Has(req, "status") \/ ~Has(req, "id")
             THEN Reply(st, 400, "Missing parameters, requires 'status' and 'id'")
             ELSE IF ~IsNumeric(Get(req, "status")) THEN Raise(st, "ValueError")
             ELSE IF ~IsNumeric(Get(req, "id")) THEN Raise(st, "ValueError")
             ELSE LET status == ToInt(Get(req, "status"))
                      sms == First(ByPk(st, ch, Get(req, "id")))
                  IN IF sms = 0 THEN Reply(st, 404, "No SMS message with id")
                     ELSE Reply(IF status = 120 THEN StatusDelivered(st, sms)
                                ELSE IF status = 111 THEN StatusSent(st, sms)
                                ELSE Fail(st, sms),
                                200, "SMS Status Updated")
        ELSE IF req.action = "receive"
        THEN IF ~Has(req, "date") \/ ~Has(req, "from") \/ ~Has(req, "msg")
             THEN Reply(st, 400, "Missing parameters, requires 'from', 'date' and 'msg'")
             ELSE IF Get(req, "date") # "ts_ok" THEN Raise(st, "ValueError")
             ELSE Reply(CreateIncoming(st, ch, URNFromTel(Get(req, "from")),
                                       Get(req, "msg"), PENDING, NoMedia),
                        200, "SMS Accepted")
        ELSE Reply(st, 400, "Not handled")

----------------------------------------------------------------------------
(* InfobipHandler: delivery reports are POSTs, incoming messages are GETs *)

InfobipFailedStatuses ==
    {"NOT_SENT", "NOT_ALLOWED", "INVALID_DESTINATION_ADDRESS", "INVALID_SOURCE_ADDRESS",
     "ROUTE_NOT_AVAILABLE", "NOT_ENOUGH_CREDITS", "REJECTED", "INVALID_MESSAGE_FORMAT"}

\* the request body is XML: p.xml tells whether it parses, p.message whether
\* it has a <message> element, id and status are that element's attributes
InfobipPost(req, st) ==
    LET ch == FirstChannel(ChannelByUuid(req.uuid, TYPE.INFOBIP))
    IN  IF ch = <<>> THEN Reply(st, 404, "Channel with uuid not found.")
        ELSE IF Get(req, "xml") # "ok" THEN Raise(st, "ParseError")
        ELSE IF ~Has(req, "message") THEN Raise(st, "AttributeError")
        ELSE LET sms == First(ByExt(st, ch, IF Has(req, "id") THEN Get(req, "id") ELSE NoExt))
                 status == IF Has(req, "status") THEN Get(req, "status") ELSE ""
             IN IF sms = 0 THEN Reply(st, 404, "No SMS message with external id")
                ELSE Reply(CASE status = "DELIVERED" -> StatusDelivered(st, sms)
                             [] status = "SENT" -> StatusSent(st, sms)
                             [] status \in InfobipFailedStatuses -> Fail(st, sms)
                             [] OTHER -> st,
                           200, "SMS Status Updated")

InfobipGet(req, st) ==
    LET ch == FirstChannel(ChannelByUuid(req.uuid, TYPE.INFOBIP))
    IN  IF ~Has(req, "sender") \/ ~Has(req, "text") \/ ~Has(req, "receiver")
        THEN Reply(st, 400, "Missing parameters, must have 'sender', 'text' and 'receiver'")
        ELSE IF ch = <<>> THEN Reply(st, 404, "Channel with uuid not found.")
        ELSE IF req.action = "delivered"
        THEN Reply(st, 401, "Illegal method, delivery reports must be POSTs")
        ELSE IF channels[ch].address # PrependPlus(Get(req, "receiver"))
        THEN Reply(st, 404, "Channel with uuid not found.")
        ELSE Reply(CreateIncoming(st, ch, URNFromTel(Get(req, "sender")),
                                  Get(req, "text"), PENDING, NoMedia),
                   200, "SMS Accepted")

InfobipHandle(req, st) ==
    IF req.method = "GET" THEN InfobipGet(req, st) ELSE InfobipPost(req, st)

----------------------------------------------------------------------------
(* Hub9Handler *)

Hub9Get(req, st) ==
    LET ch == FirstChannel(ChannelByUuid(req.uuid, TYPE.HUB9))
    IN  IF ch = <<>> THEN Reply(st, 404, "Channel with uuid not found.")
        ELSE IF Has(req, "status") /\ ~IsNumeric(Get(req, "status"))
        THEN Raise(st, "ValueError")
        ELSE
        LET status == IF Has(req, "status") THEN ToInt(Get(req, "status")) ELSE -1
        IN  IF req.action = "delivered"
            THEN IF Has(req, "messageid") /\ ~IsNumeric(Get(req, "messageid"))
                 THEN Raise(st, "ValueError")
                 ELSE LET sms == IF Has(req, "messageid")
                                 THEN First(ByPk(st, ch, Get(req, "messageid"))) ELSE 0
                      IN IF sms = 0 THEN Reply(st, 404, "No SMS message with external id")
                         ELSE Reply(IF 10 <= status /\ status <= 12
                                    THEN StatusDelivered(st, sms)
                                    ELSE IF status > 20 THEN Fail(st, sms)
                                    ELSE IF status # -1 THEN StatusSent(st, sms)
                                    ELSE st,
                                    200, "000")
            ELSE IF req.action = "received"
            THEN IF ~Has(req, "sendto") THEN Raise(st, "TypeError")
                 ELSE IF channels[ch].address # PrependPlus(Get(req, "sendto"))
                 THEN Reply(st, 404, "Channel with number not found.")
                 ELSE IF ~Has(req, "original") THEN Raise(st, "TypeError")
                 ELSE Reply(CreateIncoming(st, ch,
                                URNFromTel(PrependPlus(Get(req, "original"))),
                                IF Has(req, "message") THEN Get(req, "message") ELSE "None",
                                PENDING, NoMedia),
                            200, "000")
            ELSE Reply(st, 404, "Unreconized action")

----------------------------------------------------------------------------
(* HighConnectionHandler *)

HighConnectionGet(req, st) ==
    LET ch == FirstChannel(ChannelByUuid(req.uuid, TYPE.HIGH_CONNECTION))
    IN  IF ch = <<>> THEN Reply(st, 400, "Channel with uuid not found.")
        ELSE IF req.action = "status"
        THEN IF Has(req, "status") /\ ~IsNumeric(Get(req, "status"))
             THEN Raise(st, "ValueError")
             ELSE IF Has(req, "ret_id") /\ ~IsNumeric(Get(req, "ret_id"))
             THEN Raise(st, "ValueError")
             ELSE LET status == IF Has(req, "status") THEN ToInt(Get(req, "status")) ELSE 0
                      sms == IF Has(req, "ret_id")
                             THEN First(ByPk(st, ch, Get(req, "ret_id"))) ELSE 0
                  IN IF sms = 0 THEN Reply(st, 400, "No SMS message with id")
                     ELSE Reply(IF status = 4 THEN StatusSent(st, sms)
                                ELSE IF status = 6 THEN StatusDelivered(st, sms)
                                ELSE IF status \in {2, 11, 12, 13, 14, 15, 16}
                                THEN Fail(st, sms)
                                ELSE st,
                                200, "Status Updated")
        ELSE IF req.action = "receive"
        THEN IF Has(req, "RECEPTION_DATE") /\ Get(req, "RECEPTION_DATE") # "ts_ok"
             THEN Raise(st, "ValueError")
             ELSE IF ~Has(req, "TO") \/ ~Has(req, "FROM") \/ ~Has(req, "MESSAGE")
             THEN Reply(st, 400, "Missing TO, FROM or MESSAGE parameters")
             ELSE Reply(CreateIncoming(st, ch, URNFromTel(Get(req, "FROM")),
                                       Get(req, "MESSAGE"), PENDING, NoMedia),
                        200, "Msg received")
        ELSE Reply(st, 400, "Unrecognized action")

----------------------------------------------------------------------------
(* BlackmynaHandler *)

BlackmynaGet(req, st) ==
    LET ch == FirstChannel(ChannelByUuid(req.uuid, TYPE.BLACKMYNA))
    IN  IF ch = <<>> THEN Reply(st, 400, "Channel with uuid not found.")
        ELSE IF req.action = "status"
        THEN IF Has(req, "status") /\ ~IsNumeric(Get(req, "status"))
             THEN Raise(st, "ValueError")
             ELSE LET status == IF Has(req, "status") THEN ToInt(Get(req, "status")) ELSE 0
                      sms == First(ByExt(st, ch,
                                   IF Has(req, "id") THEN Get(req, "id") ELSE NoExt))
                  IN IF sms = 0 THEN Reply(st, 400, "No SMS message with id")
                     ELSE Reply(IF status = 8 THEN StatusSent(st, sms)
                                ELSE IF status = 1 THEN StatusDelivered(st, sms)
                                ELSE IF status \in {2, 16} THEN Fail(st, sms)
                                ELSE st,
                                200, "")
        ELSE IF req.action = "receive"
        THEN IF ~Has(req, "to") \/ ~Has(req, "from") \/ ~Has(req, "text")
             THEN Reply(st, 400, "Missing to, from or text parameters")
             ELSE IF channels[ch].address # Get(req, "to")
             THEN Reply(st, 400, "Invalid to number")
             ELSE Reply(CreateIncoming(st, ch, URNFromTel(Get(req, "from")),
                                       Get(req, "text"), PENDING, NoMedia),
                        200, "")
        ELSE Reply(st, 400, "Unrecognized action")

----------------------------------------------------------------------------
(* SMSCentralHandler *)

SMSCentralGet(req, st) ==
    LET ch == FirstChannel(ChannelByUuid(req.uuid, TYPE.SMSCENTRAL))
    IN  IF ch = <<>> THEN Reply(st, 400, "Channel with uuid not found.")
        ELSE IF req.action = "receive"
        THEN IF ~Has(req, "mobile") \/ ~Has(req, "message")
             THEN Reply(st, 400, "Missing mobile or message parameters")
             ELSE Reply(CreateIncoming(st, ch, URNFromTel(Get(req, "mobile")),
                                       Get(req, "message"), PENDING, NoMedia),
                        200, "")
        ELSE Reply(st, 400, "Unrecognized action")

----------------------------------------------------------------------------
(* NexmoHandler: the uuid of the route is the organization's Nexmo uuid *)

NexmoGet(req, st) ==
    IF (req.action = "receive" /\ ~Has(req, "to"))
       \/ (req.action = "status" /\ ~Has(req, "messageId"))
    THEN Reply(st, 200, "No to parameter, ignoring")
    ELSE IF ~Has(req, "to") THEN Raise(st, "TypeError")
    ELSE
    LET to == Get(req, "to")
        ch == FirstChannel({u \in DOMAIN channels :
                /\ channels[u].address = to \/ channels[u].address = PrependPlus(to)
                /\ Dispatchable(channels[u])
                /\ channels[u].channel_type = TYPE.NEXMO})
        external_id == IF Has(req, "messageId") THEN Get(req, "messageId") ELSE NoExt
    IN  IF ch = <<>> \/ channels[ch].nexmo_uuid # req.uuid
        THEN Reply(st, 404, "Channel not found for number")
        ELSE IF req.action = "status"
        THEN LET sms == First(ByExt(st, ch, external_id))
                 status == IF Has(req, "status") THEN Get(req, "status") ELSE ""
             IN IF sms = 0 THEN Reply(st, 200, "No SMS message with external id")
                ELSE Reply(CASE status = "delivered" -> StatusDelivered(st, sms)
                             [] status \in {"accepted", "buffered"} -> StatusSent(st, sms)
                             [] status \in {"expired", "failed"} -> Fail(st, sms)
                             [] OTHER -> st,
                           200, "SMS Status Updated")
        ELSE IF req.action = "receive"
        THEN LET st1 == CreateIncoming(st, ch,
                            URNFromTel(PrependPlus(IF Has(req, "msisdn")
                                                   THEN Get(req, "msisdn") ELSE <<"None">>)),
                            IF Has(req, "text") THEN Get(req, "text") ELSE "None",
                            PENDING, NoMedia)
             IN Reply(SetExternalId(st1, NewId(st1), external_id), 200, "SMS Accepted")
        ELSE Reply(st, 400, "Not handled")

----------------------------------------------------------------------------
(* VerboiceHandler: call status only; env.call tells whether an IVRCall    *)
(* with the request's CallSid exists                                       *)

VerboiceHandle(req, st) ==
    LET ch == FirstChannel(ChannelByUuid(req.uuid, TYPE.VERBOICE))
    IN  IF req.method = "POST" THEN Reply(st, 405, "Illegal method, must be GET")
        ELSE IF ch = <<>> THEN Reply(st, 404, "Channel not found for id")
        ELSE IF req.action = "status"
        THEN IF ~Has(req, "From") \/ ~Has(req, "CallSid") \/ ~Has(req, "CallStatus")
             THEN Reply(st, 400, "Missing From or CallSid or CallStatus, ignoring message")
             ELSE IF req.env.call
             THEN Reply(Fired(st, "call_status_updated"), 200, "Call Status Updated")
             ELSE Reply(st, 400, "Not handled")
        ELSE Reply(st, 400, "Not handled")

----------------------------------------------------------------------------
(* VumiHandler: the body is JSON; p.json tells whether it parses *)

\* a handler that marks the message FAILED on a 'failed' delivery report
VumiEvent_FailedReportFails(req, st, ch) ==
    IF ~Has(req, "event_type") /\ ~Has(req, "user_message_id")
    THEN Reply(st, 400, "Missing event_type or user_message_id, ignoring message")
    ELSE IF ~Has(req, "user_message_id") \/ ~Has(req, "event_type")
    THEN Raise(st, "KeyError")
    ELSE
    LET message == ByExt(st, ch, Get(req, "user_message_id"))
        status == Get(req, "event_type")
    IN  IF message = {} THEN Reply(st, 404, "Message with external id not found")
        ELSE IF status \notin {"ack", "nack", "delivery_report"}
        THEN Reply(st, 200, "Unknown status, ignoring")
        ELSE
        LET \* message.filter(status__in=[PENDING, QUEUED, WIRED]).update(status=SENT)
            \* the status column is written by the query, not by status_sent()
            st1 == IF status = "ack"
                   THEN [st EXCEPT !.msgs =
                            [i \in DOMAIN @ |->
                                IF i \in message /\ @[i].status \in {PENDING, QUEUED, WIRED}
                                THEN [@[i] EXCEPT !.status = SENT] ELSE @[i]],
                                   !.events = @ \cup {"queryset_update_status"}]
                   ELSE st
            st2 == IF status = "nack"
                   THEN IF Has(req, "nack_reason") /\ Get(req, "nack_reason") = "Unknown address."
                        THEN Fired(st1, "contact_stopped") ELSE st1
                   ELSE IF status = "delivery_report"
                   THEN LET m == First(message)
                            delivery_status == IF Has(req, "delivery_status")
                                               THEN Get(req, "delivery_status")
                                               ELSE "success"
                        IN IF delivery_status = "failed" THEN Fail(st1, m)
                           ELSE IF st1.msgs[m].status = WIRED
                                THEN StatusDelivered(st1, m) ELSE st1
                   ELSE st1
        IN Reply(st2, 200, "Message Status Updated")

\* a handler whose 'ack' marks every matching message SENT
VumiEvent_AckEveryMatch(req, st, ch) ==
    IF ~Has(req, "event_type") /\ ~Has(req, "user_message_id")
    THEN Reply(st, 400, "Missing event_type or user_message_id, ignoring message")
    ELSE IF ~Has(req, "user_message_id") \/ ~Has(req, "event_type")
    THEN Raise(st, "KeyError")
    ELSE
    LET message == ByExt(st, ch, Get(req, "user_message_id"))
        status == Get(req, "event_type")
    IN  IF message = {} THEN Reply(st, 404, "Message with external id not found")
        ELSE IF status \notin {"ack", "nack", "delivery_report"}
        THEN Reply(st, 200, "Unknown status, ignoring")
        ELSE
        LET \* message.filter(status__in=[PENDING, QUEUED, WIRED]).update(status=SENT)
            \* the status column is written by the query, not by status_sent()
            st1 == IF status = "ack"
                   THEN [st EXCEPT !.msgs =
                            [i \in DOMAIN @ |->
                                IF i \in message
                                THEN [@[i] EXCEPT !.status = SENT] ELSE @[i]],
                                   !.events = @ \cup {"queryset_update_status"}]
                   ELSE st
            st2 == IF status = "nack"
                   THEN IF Has(req, "nack_reason") /\ Get(req, "nack_reason") = "Unknown address."
                        THEN Fired(st1, "contact_stopped") ELSE st1
                   ELSE IF status = "delivery_report"
                   THEN LET m == First(message)
                            delivery_status == IF Has(req, "delivery_status")
                                               THEN Get(req, "delivery_status")
                                               ELSE "success"
                        IN IF delivery_status = "failed" THEN st1
                           ELSE IF st1.msgs[m].status = WIRED
                                THEN StatusDelivered(st1, m) ELSE st1
                   ELSE st1
        IN Reply(st2, 200, "Message Status Updated")

VumiEvent(req, st, ch) ==
    IF ~Has(req, "event_type") /\ ~Has(req, "user_message_id")
    THEN Reply(st, 400, "Missing event_type or user_message_id, ignoring message")
    ELSE IF ~Has(req, "user_message_id") \/ ~Has(req, "event_type")
    THEN Raise(st, "KeyError")
    ELSE
    LET message == ByExt(st, ch, Get(req, "user_message_id"))
        status == Get(req, "event_type")
    IN  IF message = {} THEN Reply(st, 404, "Message with external id not found")
        ELSE IF status \notin {"ack", "nack", "delivery_report"}
        THEN Reply(st, 200, "Unknown status, ignoring")
        ELSE
        LET \* message.filter(status__in=[PENDING, QUEUED, WIRED]).update(status=SENT)
            \* the status column is written by the query, not by status_sent()
            st1 == IF status = "ack"
                   THEN [st EXCEPT !.msgs =
                            [i \in DOMAIN @ |->
                                IF i \in message /\ @[i].status \in {PENDING, QUEUED, WIRED}
                                THEN [@[i] EXCEPT !.status = SENT] ELSE @[i]],
                                   !.events = @ \cup {"queryset_update_status"}]
                   ELSE st
            st2 == IF status = "nack"
                   THEN IF Has(req, "nack_reason") /\ Get(req, "nack_reason") = "Unknown address."
                        THEN Fired(st1, "contact_stopped") ELSE st1
                   ELSE IF status = "delivery_report"
                   THEN LET m == First(message)
                            delivery_status == IF Has(req, "delivery_status")
                                               THEN Get(req, "delivery_status")
                                               ELSE "success"
                        IN IF delivery_status = "failed" THEN st1
                           ELSE IF st1.msgs[m].status = WIRED
                                THEN StatusDelivered(st1, m) ELSE st1
                   ELSE st1
        IN Reply(st2, 200, "Message Status Updated")

VumiReceive(req, st, ch) ==
    IF ~(Has(req, "timestamp") \/ Has(req, "from_addr") \/ Has(req, "content")
         \/ Has(req, "message_id"))
    THEN Reply(st, 400, "Missing one of timestamp, from_addr, content or message_id, ignoring message")
    ELSE IF ~Has(req, "timestamp") THEN Raise(st, "KeyError")
    ELSE IF Get(req, "timestamp") # "ts_ok" THEN Raise(st, "ValueError")
    ELSE IF ~Has(req, "from_addr") \/ ~Has(req, "content") THEN Raise(st, "KeyError")
    ELSE
    LET status == IF Has(req, "session_event") /\ Get(req, "session_event") = "close"
                  THEN INTERRUPTED ELSE PENDING
        st1 == CreateIncoming(st, ch, URNFromTel(Get(req, "from_addr")),
                              Get(req, "content"), status, NoMedia)
    IN  IF status # INTERRUPTED
        THEN IF ~Has(req, "message_id") THEN Raise(st1, "KeyError")
             ELSE Reply(SetExternalId(st1, NewId(st1), Get(req, "message_id")),
                        200, "Message Accepted")
        ELSE Reply(st1, 200, "Message Accepted")

VumiHandle(req, st) ==
    IF req.method = "GET" THEN Reply(st, 405, "Illegal method, must be POST")
    ELSE IF Get(req, "json") # "ok" THEN Reply(st, 400, "Invalid JSON")
    ELSE
    LET is_ussd == (Has(req, "transport_name") /\ Get(req, "transport_name") = "ussd")
                   \/ (Has(req, "transport_type") /\ Get(req, "transport_type") = "ussd")
        ch == FirstChannel(ChannelByUuid(req.uuid,
                    IF is_ussd THEN TYPE.VUMI_USSD ELSE TYPE.VUMI))
    IN  IF ch = <<>> THEN Reply(st, 404, "Channel not found for id")
        ELSE IF req.action = "event" THEN VumiEvent(req, st, ch)
        ELSE IF req.action = "receive" THEN VumiReceive(req, st, ch)
        ELSE Reply(st, 400, "Not handled")

----------------------------------------------------------------------------
(* ClickatellHandler *)

\* a table that reads code 004 as FAILED
ClickatellStatusChoice_DeliveredAsFailed(code) ==
    CASE code \in {"001", "004", "005", "006", "007", "009", "010", "012", "014"} -> FAILED
      [] code \in {"002", "008", "011"} -> WIRED
      [] code = "003" -> SENT
      [] OTHER -> ""

ClickatellStatusChoice(code) ==
    CASE code \in {"001", "005", "006", "007", "009", "010", "012", "014"} -> FAILED
      [] code \in {"002", "008", "011"} -> WIRED
      [] code = "003" -> SENT
      [] code = "004" -> DELIVERED
      [] OTHER -> ""

RECURSIVE FailAllTracked(_, _)
\* for sms_obj in sms: sms_obj.fail(); Channel.track_status(sms_obj.channel, "Failed")
FailAllTracked(st, ids) ==
    IF ids = {} THEN st
    ELSE LET i == First(ids)
         IN FailAllTracked(Fired(Fail(st, i), "track_failed"), ids \ {i})

\* the transition of every matched message, then the broadcast update
ApplyStatusChoice(st, sms, status) ==
    LET st1 == IF status = SENT
               THEN ApplyAll(st, {i \in sms : st.msgs[i].status \in
                                        {PENDING, QUEUED, WIRED}}, SENT)
               ELSE IF status = DELIVERED THEN ApplyAll(st, sms, DELIVERED)
               ELSE IF status = FAILED THEN FailAllTracked(st, sms)
               ELSE st
    IN UpdateBroadcast(st1, sms)

\* sms_text as stored after the charset handling; "" when decoding raises
ClickatellDecode(text, charset) ==
    IF charset = "UTF-16BE"
    THEN IF text = "hello_utf16be" THEN "hello" ELSE ""
    ELSE text

\* a handler that does not compare the api_id of the request
ClickatellPost_NoApiIdCheck(req, st) ==
    LET ch == FirstChannel(ChannelByUuid(req.uuid, TYPE.CLICKATELL))
    IN  IF ch = <<>> THEN Reply(st, 400, "Channel not found for id")
        ELSE IF req.action = "status"
        THEN IF ~Has(req, "apiMsgId") \/ ~Has(req, "status")
             THEN Reply(st, 200, "Missing one of 'apiMsgId' or 'status' in request parameters.")
             ELSE LET sms == ByExt(st, ch, Get(req, "apiMsgId"))
                      status == ClickatellStatusChoice(Get(req, "status"))
                  IN IF sms = {} THEN Reply(st, 400, "Message with external id not found")
                     ELSE IF status = ""
                     THEN Reply(st, 401, "Unrecognized status code, ignoring message.")
                     ELSE Reply(ApplyStatusChoice(st, sms, status), 200, "SMS Status Updated")
        ELSE IF req.action = "receive"
        THEN IF ~Has(req, "from") \/ ~Has(req, "text") \/ ~Has(req, "moMsgId")
                \/ ~Has(req, "timestamp")
             THEN Reply(st, 200, "Missing one of 'from', 'text', 'moMsgId' or 'timestamp' in request parameters.")
             ELSE IF Get(req, "timestamp") # "ts_ok" THEN Raise(st, "ValueError")
             ELSE LET charset == IF Has(req, "charset") THEN Get(req, "charset") ELSE "utf-8"
                      text == ClickatellDecode(Get(req, "text"), charset)
                  IN IF text = "" THEN Raise(st, "UnicodeDecodeError")
                     ELSE LET st1 == CreateIncoming(st, ch, URNFromTel(Get(req, "from")),
                                                    text, PENDING, NoMedia)
                          IN Reply(SetExternalId(st1, NewId(st1), Get(req, "moMsgId")),
                                   200, "SMS Accepted")
        ELSE Reply(st, 400, "Not handled")

ClickatellPost(req, st) ==
    LET ch == FirstChannel(ChannelByUuid(req.uuid, TYPE.CLICKATELL))
    IN  IF ch = <<>> THEN Reply(st, 400, "Channel not found for id")
        ELSE IF Has(req, "api_id") /\ channels[ch].api_id # Get(req, "api_id")
        THEN Reply(st, 400, "Invalid API id for message delivery")
        ELSE IF req.action = "status"
        THEN IF ~Has(req, "apiMsgId") \/ ~Has(req, "status")
             THEN Reply(st, 200, "Missing one of 'apiMsgId' or 'status' in request parameters.")
             ELSE LET sms == ByExt(st, ch, Get(req, "apiMsgId"))
                      status == ClickatellStatusChoice(Get(req, "status"))
                  IN IF sms = {} THEN Reply(st, 400, "Message with external id not found")
                     ELSE IF status = ""
                     THEN Reply(st, 401, "Unrecognized status code, ignoring message.")
                     ELSE Reply(ApplyStatusChoice(st, sms, status), 200, "SMS Status Updated")
        ELSE IF req.action = "receive"
        THEN IF ~Has(req, "from") \/ ~Has(req, "text") \/ ~Has(req, "moMsgId")
                \/ ~Has(req, "timestamp")
             THEN Reply(st, 200, "Missing one of 'from', 'text', 'moMsgId' or 'timestamp' in request parameters.")
             ELSE IF Get(req, "timestamp") # "ts_ok" THEN Raise(st, "ValueError")
             ELSE LET charset == IF Has(req, "charset") THEN Get(req, "charset") ELSE "utf-8"
                      text == ClickatellDecode(Get(req, "text"), charset)
                  IN IF text = "" THEN Raise(st, "UnicodeDecodeError")
                     ELSE LET st1 == CreateIncoming(st, ch, URNFromTel(Get(req, "from")),
                                                    text, PENDING, NoMedia)
                          IN Reply(SetExternalId(st1, NewId(st1), Get(req, "moMsgId")),
                                   200, "SMS Accepted")
        ELSE Reply(st, 400, "Not handled")

----------------------------------------------------------------------------
(* PlivoHandler *)

PlivoStatusChoice(code) ==
    CASE code = "queued" -> WIRED
      [] code = "sent" -> SENT
      [] code = "delivered" -> DELIVERED
      [] code = "undelivered" -> SENT
      [] code = "rejected" -> FAILED
      [] OTHER -> ""

\* Channel.objects.filter(is_active=True, uuid=uuid, channel_type=TYPE.PLIVO).first()
PlivoChannel(uuid) ==
    FirstChannel({u \in DOMAIN channels :
        u = uuid /\ channels[u].is_active /\ channels[u].channel_type = TYPE.PLIVO})

PlivoPost(req, st) ==
    IF ~Has(req, "From") \/ ~Has(req, "To") \/ ~Has(req, "MessageUUID")
    THEN Reply(st, 400, "Missing one of 'From', 'To', or 'MessageUUID' in request parameters.")
    ELSE
    LET ch == PlivoChannel(req.uuid)
        addr == IF req.action = "status" THEN Get(req, "From") ELSE Get(req, "To")
        channel_address == IF addr[1] # PLUS THEN PrependPlus(addr) ELSE addr
    IN  IF req.action = "status"
        THEN IF ~Has(req, "Status") THEN Reply(st, 400, "Missing 'Status' in request parameters.")
             ELSE IF ch = <<>> THEN Reply(st, 400, "Channel not found for number")
             ELSE IF addr = <<>> THEN Raise(st, "IndexError")
             ELSE IF channels[ch].address # channel_address
             THEN Reply(st, 400, "Channel not found for number")
             ELSE LET sms_id == IF Has(req, "ParentMessageUUID")
                                THEN Get(req, "ParentMessageUUID")
                                ELSE Get(req, "MessageUUID")
                      sms == ByExt(st, ch, sms_id)
                      status == PlivoStatusChoice(Get(req, "Status"))
                  IN IF sms = {} THEN Reply(st, 400, "Message with external id not found")
                     ELSE IF status = ""
                     THEN Reply(st, 401, "Unrecognized status, ignoring message.")
                     ELSE Reply(ApplyStatusChoice(st, sms, status), 200, "Status Updated")
        ELSE IF req.action = "receive"
        THEN IF ~Has(req, "Text") THEN Reply(st, 400, "Missing 'Text' in request parameters.")
             ELSE IF ch = <<>> THEN Reply(st, 400, "Channel not found for number")
             ELSE IF addr = <<>> THEN Raise(st, "IndexError")
             ELSE IF channels[ch].address # channel_address
             THEN Reply(st, 400, "Channel not found for number")
             ELSE LET st1 == CreateIncoming(st, ch, URNFromTel(Get(req, "From")),
                                            Get(req, "Text"), PENDING, NoMedia)
                  IN Reply(SetExternalId(st1, NewId(st1), Get(req, "MessageUUID")),
                           200, "SMS accepted")
        ELSE Reply(st, 400, "Not handled")

----------------------------------------------------------------------------
(* MageHandler: no channel in the route; the token is the deployment's *)

\* a handler that accepts every header of the Token scheme
MagePost_AnyToken(req, st) ==
    IF req.method = "GET" THEN Reply(st, 405, "Illegal method, must be POST")
    ELSE IF ~Has(req, "authorization") \/ Get(req, "authorization")[1] # "Token"
    THEN Reply(st, 401, "Incorrect authentication token")
    ELSE IF req.action = "handle_message"
    THEN IF ~Has(req, "message_id") \/ ~IsNumeric(Get(req, "message_id"))
         THEN Reply(st, 400, "Invalid message_id")
         ELSE IF ToInt(Get(req, "message_id")) \notin MsgIds(st)
         THEN Raise(st, "DoesNotExist")
         ELSE Reply(Fired(Fired(st, "handle_event_task"), "webhook_sms_received"), 200, "")
    ELSE IF req.action = "follow_notification"
    THEN IF ~Has(req, "channel_id") \/ ~IsNumeric(Get(req, "channel_id"))
            \/ ~Has(req, "contact_urn_id") \/ ~IsNumeric(Get(req, "contact_urn_id"))
         THEN Reply(st, 400, "Invalid channel or contact URN id")
         ELSE Reply(Fired(st, "fire_follow_triggers"), 200, "")
    ELSE Reply(st, 200, "")

MagePost(req, st) ==
    IF req.method = "GET" THEN Reply(st, 405, "Illegal method, must be POST")
    ELSE IF ~Has(req, "authorization") \/ Get(req, "authorization") # <<"Token", MageAuthToken>>
    THEN Reply(st, 401, "Incorrect authentication token")
    ELSE IF req.action = "handle_message"
    THEN IF ~Has(req, "message_id") \/ ~IsNumeric(Get(req, "message_id"))
         THEN Reply(st, 400, "Invalid message_id")
         ELSE IF ToInt(Get(req, "message_id")) \notin MsgIds(st)
         THEN Raise(st, "DoesNotExist")
         ELSE Reply(Fired(Fired(st, "handle_event_task"), "webhook_sms_received"), 200, "")
    ELSE IF req.action = "follow_notification"
    THEN IF ~Has(req, "channel_id") \/ ~IsNumeric(Get(req, "channel_id"))
            \/ ~Has(req, "contact_urn_id") \/ ~IsNumeric(Get(req, "contact_urn_id"))
         THEN Reply(st, 400, "Invalid channel or contact URN id")
         ELSE Reply(Fired(st, "fire_follow_triggers"), 200, "")
    ELSE Reply(st, 200, "")

----------------------------------------------------------------------------
(* StartHandler: the body is XML; p.xml tells whether it parses *)

\* a handler that acknowledges in plain text
StartPost_PlainAnswer(req, st) ==
    LET ch == FirstChannel(ChannelByUuid(req.uuid, TYPE.START))
        parsed == Get(req, "xml") = "ok"
    IN  IF ch = <<>> THEN Reply(st, 400, "Channel with uuid not found.")
        ELSE IF ~parsed \/ ~Has(req, "request_id") \/ ~Has(req, "from") \/ ~Has(req, "body")
        THEN Reply(st, 400, "Missing parameters, must have 'request_id', 'to' and 'body'")
        ELSE Reply(CreateIncoming(st, ch, URNFromTel(Get(req, "from")), Get(req, "body"),
                                  PENDING, NoMedia),
                   200, "SMS Accepted")

StartPost(req, st) ==
    LET ch == FirstChannel(ChannelByUuid(req.uuid, TYPE.START))
        parsed == Get(req, "xml") = "ok"
    IN  IF ch = <<>> THEN Reply(st, 400, "Channel with uuid not found.")
        ELSE IF ~parsed \/ ~Has(req, "request_id") \/ ~Has(req, "from") \/ ~Has(req, "body")
        THEN Reply(st, 400, "Missing parameters, must have 'request_id', 'to' and 'body'")
        ELSE Reply(CreateIncoming(st, ch, URNFromTel(Get(req, "from")), Get(req, "body"),
                                  PENDING, NoMedia),
                   200, "<answer type=\"async\"><state>Accepted</state></answer>")

----------------------------------------------------------------------------
(* ChikkaHandler *)

ChikkaPost(req, st) ==
    IF ~Has(req, "message_type") THEN Raise(st, "AttributeError")
    ELSE
    LET action == Get(req, "message_type")
        ch == FirstChannel(ChannelByUuid(req.uuid, TYPE.CHIKKA))
    IN  IF ch = <<>> THEN Reply(st, 400, "Error, channel not found for id")
        ELSE IF action = "outgoing"
        THEN IF ~Has(req, "message_id") \/ ~Has(req, "status")
             THEN Reply(st, 400, "Error, missing one of 'message_id' or 'status' in request parameters.")
             ELSE IF ~IsNumeric(Get(req, "message_id")) THEN Raise(st, "ValueError")
             ELSE LET sms == ByPk(st, ch, Get(req, "message_id"))
                      status_code == Get(req, "status")
                  IN IF sms = {} THEN Reply(st, 400, "Error, message with external id not found")
                     ELSE IF status_code \notin {"SENT", "FAILED"}
                     THEN Reply(st, 400, "Error, unrecognized status, ignoring message.")
                     ELSE IF status_code = "SENT"
                     THEN Reply(ApplyAll(st, {i \in sms : st.msgs[i].status \in
                                                    {PENDING, QUEUED, WIRED}}, SENT),
                                200, "Accepted. SMS Status Updated")
                     ELSE Reply(ApplyAll(st, sms, FAILED), 200, "Accepted. SMS Status Updated")
        ELSE IF action = "incoming"
        THEN IF ~Has(req, "request_id") \/ ~Has(req, "mobile_number") \/ ~Has(req, "message")
                \/ ~Has(req, "timestamp")
             THEN Reply(st, 400, "Error, missing one of 'mobile_number', 'request_id', 'message' or 'timestamp' in request parameters.")
             ELSE IF Get(req, "timestamp") # "ts_ok" THEN Raise(st, "ValueError")
             ELSE LET st1 == CreateIncoming(st, ch, URNFromTel(Get(req, "mobile_number")),
                                            Get(req, "message"), PENDING, NoMedia)
                  IN Reply(SetExternalId(st1, NewId(st1), Get(req, "request_id")),
                           200, "Accepted")
        ELSE Reply(st, 400, "Error, unknown message type")

----------------------------------------------------------------------------
(* JasminHandler *)

\* gsm7.decode(content, 'replace')[0]: the text the GSM 03.38 septets stand
\* for; 0x00 is the commercial at
Gsm7Decode(content) == IF content = "gsm7_00" THEN "@" ELSE content

JasminHandle(req, st) ==
    LET ch == FirstChannel(ChannelByUuid(req.uuid, TYPE.JASMIN))
    IN  IF req.method = "GET" THEN Reply(st, 400, "Must be called as a POST")
        ELSE IF ch = <<>> THEN Reply(st, 400, "Channel not found for id")
        ELSE IF req.action = "status"
        THEN IF ~(Has(req, "id") /\ Has(req, "dlvrd") /\ Has(req, "err"))
             THEN Reply(st, 400, "Missing one of 'id' or 'dlvrd' or 'err' in request parameters.")
             ELSE LET sms == ByExt(st, ch, Get(req, "id"))
                  IN IF sms = {} THEN Reply(st, 400, "Message with external id not found")
                     ELSE Reply(IF Get(req, "dlvrd") = "1" THEN ApplyAll(st, sms, DELIVERED)
                                ELSE IF Get(req, "err") = "1" THEN ApplyAll(st, sms, FAILED)
                                ELSE st,
                                200, "ACK/Jasmin")
        ELSE IF req.action = "receive"
        THEN IF ~(Has(req, "content") /\ Has(req, "coding") /\ Has(req, "from")
                  /\ Has(req, "to") /\ Has(req, "id"))
             THEN Reply(st, 400, "Missing one of 'content', 'coding', 'from', 'to' or 'id' in request parameters.")
             ELSE LET content == IF Get(req, "coding") = "0"
                                 THEN Gsm7Decode(Get(req, "content"))
                                 ELSE Get(req, "content")
                      st1 == CreateIncoming(st, ch, URNFromTel(Get(req, "from")), content,
                                            PENDING, NoMedia)
                  IN Reply(SetExternalId(st1, NewId(st1), Get(req, "id")), 200, "ACK/Jasmin")
        ELSE Reply(st, 400, "Not handled, unknown action")

----------------------------------------------------------------------------
(* MbloxHandler *)

MbloxHandle(req, st) ==
    LET ch == FirstChannel(ChannelByUuid(req.uuid, TYPE.MBLOX))
    IN  IF req.method = "GET" THEN Reply(st, 400, "Must be called as a POST")
        ELSE IF ch = <<>> THEN Reply(st, 400, "Channel not found for id")
        ELSE IF Get(req, "json") # "ok" THEN Reply(st, 400, "Invalid JSON in POST body")
        ELSE IF ~Has(req, "type") THEN Reply(st, 400, "Missing 'type' in request body.")
        ELSE IF Get(req, "type") = "recipient_delivery_report_sms"
        THEN IF ~(Has(req, "batch_id") /\ Has(req, "status"))
             THEN Reply(st, 400, "Missing one of 'batch_id' or 'status' in request body.")
             ELSE LET sms == ByExt(st, ch, Get(req, "batch_id"))
                      status == Get(req, "status")
                      st1 == IF status = "Delivered" THEN ApplyAll(st, sms, DELIVERED) ELSE st
                      st2 == IF status = "Dispatched" THEN ApplyAll(st1, sms, SENT)
                             ELSE IF status \in {"Aborted", "Rejected", "Failed", "Expired"}
                             THEN ApplyAll(st1, sms, FAILED)
                             ELSE st1
                  IN IF sms = {} THEN Reply(st, 400, "Message with external id not found")
                     ELSE Reply(st2, 200, "SMS Updated")
        ELSE IF Get(req, "type") = "mo_text"
        THEN IF ~(Has(req, "id") /\ Has(req, "from") /\ Has(req, "to") /\ Has(req, "body")
                  /\ Has(req, "received_at"))
             THEN Reply(st, 400, "Missing one of 'id', 'from', 'to', 'body' or 'received_at' in request body.")
             ELSE LET st1 == CreateIncoming(st, ch, URNFromTel(Get(req, "from")),
                                            Get(req, "body"), PENDING, NoMedia)
                  IN Reply(SetExternalId(st1, NewId(st1), Get(req, "id")), 200, "SMS Accepted")
        ELSE Reply(st, 400, "Not handled, unknown type")

----------------------------------------------------------------------------
(* ViberHandler *)

\* Msg.objects.filter(channel=channel, direction=OUTGOING, external_id=ext)
ByExtOutgoing(st, uuid, ext) == {i \in ByExt(st, uuid, ext) : st.msgs[i].direction = OUTGOING}

ViberHandle(req, st) ==
    LET ch == FirstChannel(ChannelByUuid(req.uuid, TYPE.VIBER))
    IN  IF req.method = "GET" THEN Reply(st, 405, "Must be called as a POST")
        ELSE IF ch = <<>> THEN Reply(st, 400, "Channel not found for id")
        ELSE IF Get(req, "json") # "ok" THEN Reply(st, 400, "Invalid JSON in POST body")
        ELSE IF req.action = "status"
        THEN IF ~Has(req, "message_token") THEN Raise(st, "KeyError")
             ELSE LET msg == First(ByExtOutgoing(st, ch, Get(req, "message_token")))
                  IN IF msg = 0 THEN Reply(st, 200, "Message with external id not found")
                     ELSE Reply(StatusDelivered(st, msg), 200, "Msg updated")
        ELSE IF req.action = "receive"
        THEN IF ~(Has(req, "message_token") /\ Has(req, "phone_number") /\ Has(req, "time")
                  /\ Has(req, "message"))
             THEN Reply(st, 400, "Missing one of 'message_token', 'phone_number', 'time', or 'message' in request parameters.")
             ELSE LET st1 == CreateIncoming(st, ch, URNFromTel(Get(req, "phone_number")),
                                            Get(req, "message"), PENDING, NoMedia)
                  IN Reply(SetExternalId(st1, NewId(st1), Get(req, "message_token")),
                           200, "Msg Accepted")
        ELSE Reply(st, 400, "Not handled, unknown action")

----------------------------------------------------------------------------
(* LineHandler: p.events is the list of events of the body *)

LinePost(req, st) ==
    LET ch == FirstChannel(ChannelByUuid(req.uuid, TYPE.LINE))
    IN  IF ch = <<>> THEN Reply(st, 404, "Channel with uuid not found.")
        ELSE IF Get(req, "json") # "ok" \/ ~Has(req, "events")
        THEN Reply(st, 400, "Not handled. Error")
        ELSE IF Get(req, "events") = <<>> THEN Raise(st, "ValueError")
        ELSE LET item == Get(req, "events")[1]
             IN IF ~item.source \/ item.type = ""
                THEN Reply(st, 400, "Missing message, source or type in the event")
                ELSE IF item.type = "text"
                THEN Reply(CreateIncoming(st, ch, URNFromParts("line", Bare(SenderDigits)),
                                          item.text, PENDING, NoMedia),
                           200, "Msg Accepted")
                ELSE Reply(st, 200, "Msg Ignored")

----------------------------------------------------------------------------
(* GlobeHandler: p.list is the inboundSMSMessage array of the body *)

\* URN.to_parts: scheme and path of a URN, ValueError when either is empty
ToPartsFails(urn) == urn.scheme = "" \/ urn.path = <<>>

RECURSIVE GlobeReceive(_, _, _, _)
\* the loop over the batch from its i-th item on
GlobeReceive(list, i, st, ch) ==
    IF i > Len(list) THEN Reply(st, 200, "Msgs Accepted")
    ELSE
    LET inbound_msg == list[i]
    IN  IF ~({"dateTime", "senderAddress", "message", "messageId", "destinationAddress"}
                \subseteq DOMAIN inbound_msg)
        THEN Reply(st, 400, "Missing one of dateTime, senderAddress, message, messageId or destinationAddress in message")
        ELSE IF ToPartsFails(inbound_msg.destinationAddress)
        THEN Reply(st, 400, "Error parsing destination address")
        ELSE IF inbound_msg.destinationAddress.path # channels[ch].address
        THEN Reply(st, 400, "Invalid request, channel address mismatch with destinationAddress")
        ELSE IF inbound_msg.dateTime # "ts_ok" THEN Raise(st, "ValueError")
        ELSE IF ToPartsFails(inbound_msg.senderAddress)
        THEN Reply(st, 400, "Error parsing sender address")
        ELSE LET st1 == CreateIncoming(st, ch, URNFromTel(inbound_msg.senderAddress.path),
                                       inbound_msg.message, PENDING, NoMedia)
             IN GlobeReceive(list, i + 1, SetExternalId(st1, NewId(st1), inbound_msg.messageId),
                             ch)

GlobeHandle(req, st) ==
    LET ch == FirstChannel(ChannelByUuid(req.uuid, TYPE.GLOBE))
    IN  IF req.method = "GET" THEN Reply(st, 405, "Illegal method, must be POST")
        ELSE IF ch = <<>> THEN Reply(st, 400, "Channel not found for id")
        ELSE IF Get(req, "json") # "ok" THEN Reply(st, 400, "Invalid JSON")
        ELSE IF ~Has(req, "list")
        THEN Reply(st, 400, "Invalid request, missing inboundSMSMessageList or inboundSMSMessage")
        ELSE GlobeReceive(Get(req, "list"), 1, st, ch)

----------------------------------------------------------------------------
(* FacebookHandler: p.messaging is the messaging array of the first entry *)
(* (absent when that entry has none), p.entry2 the messaging array of a   *)
(* second entry                                                            *)

\* a verification that does not compare the token with the secret
FacebookGet_AnyVerifyToken(req, st) ==
    LET ch == FirstChannel(ChannelByUuid(req.uuid, TYPE.FACEBOOK))
    IN  IF ch = <<>> THEN Reply(st, 400, "Channel not found for id")
        ELSE IF Has(req, "hub_mode") /\ Get(req, "hub_mode") = "subscribe"
        THEN Reply(Fired(st, "fb_channel_subscribe"), 200,
                   IF Has(req, "hub_challenge") THEN Get(req, "hub_challenge") ELSE "None")
        ELSE Reply(st, 400, "Unknown request")

FacebookGet(req, st) ==
    LET ch == FirstChannel(ChannelByUuid(req.uuid, TYPE.FACEBOOK))
    IN  IF ch = <<>> THEN Reply(st, 400, "Channel not found for id")
        ELSE IF Has(req, "hub_mode") /\ Get(req, "hub_mode") = "subscribe"
                /\ Has(req, "hub_verify_token")
                /\ channels[ch].secret = Get(req, "hub_verify_token")
        THEN Reply(Fired(st, "fb_channel_subscribe"), 200,
                   IF Has(req, "hub_challenge") THEN Get(req, "hub_challenge") ELSE "None")
        ELSE Reply(st, 400, "Unknown request")

RECURSIVE FacebookMessaging(_, _, _, _, _)
\* the loop over the envelopes from the i-th on; status is the list of
\* outcomes gathered so far
FacebookMessaging(messaging, i, st, ch, status) ==
    IF i > Len(messaging) THEN Reply(st, 200, status)
    ELSE
    LET envelope == messaging[i]
        urn == URNFromParts("facebook", Bare(SenderDigits))
    IN  IF envelope.kind \in {"message", "postback"}
        THEN IF envelope.kind = "message" /\ envelope.is_echo
             THEN FacebookMessaging(messaging, i + 1, st, ch, status \o "Echo Ignored;")
             ELSE IF envelope.recipient # channels[ch].address
             THEN Reply(st, 200, "Msg Ignored for recipient id")
             ELSE
             LET content == IF envelope.kind = "message" THEN envelope.content ELSE ""
                 postback == IF envelope.kind = "postback" THEN envelope.payload ELSE ""
                 st1 == IF content # "" \/ postback # ""
                        THEN [st EXCEPT !.contacts = @ \cup {urn}] ELSE st
             IN  IF content # ""
                 THEN IF ~envelope.timestamp THEN Raise(st1, "KeyError")
                      ELSE LET st2 == CreateIncoming(st1, ch, urn, content, PENDING, NoMedia)
                           IN IF envelope.mid = NoExt THEN Raise(st2, "KeyError")
                              ELSE FacebookMessaging(messaging, i + 1,
                                        SetExternalId(st2, NewId(st2), envelope.mid), ch,
                                        status \o "Msg accepted.;")
                 ELSE IF postback = GET_STARTED
                 THEN FacebookMessaging(messaging, i + 1, Fired(st1, "new_conversation_trigger"),
                                        ch, status \o "Postback handled.;")
                 ELSE FacebookMessaging(messaging, i + 1, st1, ch,
                                        status \o "Ignored, content unavailable;")
        ELSE IF envelope.kind = "delivery"
        THEN LET msg == First(ByExtOutgoing(st, ch, envelope.mid))
             IN IF msg # 0
                THEN FacebookMessaging(messaging, i + 1, StatusDelivered(st, msg), ch,
                                       status \o "Msg updated.;")
                ELSE FacebookMessaging(messaging, i + 1, st, ch, status)
        ELSE FacebookMessaging(messaging, i + 1, st, ch, status \o "Messaging entry Ignored;")

FacebookPost(req, st) ==
    LET ch == FirstChannel(ChannelByUuid(req.uuid, TYPE.FACEBOOK))
    IN  IF ch = <<>> THEN Reply(st, 400, "Channel not found for id")
        ELSE IF Get(req, "json") # "ok" THEN Reply(st, 400, "Invalid JSON in POST body")
        ELSE IF ~Has(req, "entry") THEN Reply(st, 400, "Missing entry array")
        ELSE
        LET entries ==
                <<IF Has(req, "messaging") THEN [messaging |-> Get(req, "messaging")]
                  ELSE [id |-> "page"]>>
                \o (IF Has(req, "entry2") THEN <<[messaging |-> Get(req, "entry2")]>>
                    ELSE <<>>)
            \* for entry in body.get('entry'): the JsonResponse of the messaging
            \* branch is returned from inside the loop
            RECURSIVE Entry(_)
            Entry(k) ==
                IF k > Len(entries) THEN Reply(st, 200, "Ignored, unknown msg")
                ELSE IF "messaging" \in DOMAIN entries[k]
                THEN FacebookMessaging(entries[k].messaging, 1, st, ch, "")
                ELSE Entry(k + 1)
        IN  Entry(1)

FacebookHandle(req, st) ==
    IF req.method = "GET" THEN FacebookGet(req, st) ELSE FacebookPost(req, st)

----------------------------------------------------------------------------
(* TelegramHandler: p holds the keys of body['message']; env.download is  *)
(* what download_file gives: a media url, nothing, or a network error      *)

TelegramMediaKeys == {"sticker", "video", "voice", "document"}

\* create_media_message(body, name)
CreateMediaMessage(req, st, ch, urn, name) ==
    LET st1 == IF Has(req, "caption")
               THEN CreateIncoming(st, ch, urn, Get(req, "caption"), PENDING, NoMedia)
               ELSE st
    IN  IF Has(req, name)
        THEN IF req.env.download = "error" THEN Raise(st1, "ConnectionError")
             ELSE IF req.env.download = "ok"
             THEN Reply(CreateIncoming(st1, ch, urn, "media_url", PENDING, "media"),
                        200, "Message Accepted")
             ELSE Reply(st1, 200, "Message Accepted")
        ELSE Reply(st1, 200, "Message Accepted")

TelegramContactText(contact) ==
    CASE contact = "both" -> "Eric (n2)"
      [] contact = "first_name" -> "Eric"
      [] contact = "phone_number" -> "n2"
      [] OTHER -> ""

TelegramPost(req, st) ==
    LET ch == FirstChannel(ChannelByUuid(req.uuid, TYPE.TELEGRAM))
        urn == URNFromParts("telegram", Bare(SenderDigits))
    IN  IF ch = <<>> THEN Reply(st, 404, "Channel with uuid not found.")
        ELSE IF Get(req, "json") # "ok" THEN Raise(st, "ValueError")
        ELSE IF ~Has(req, "message") THEN Reply(st, 400, "No 'message' found in payload")
        ELSE
        LET st0 == IF urn \notin st.contacts /\ ~channels[ch].is_anon /\ Has(req, "first_name")
                   THEN [st EXCEPT !.contacts = @ \cup {urn}] ELSE st
            media == {k \in TelegramMediaKeys : Has(req, k)}
        IN  IF ~Has(req, "date") THEN Raise(st0, "KeyError")
            ELSE IF media # {}
            THEN CreateMediaMessage(req, st0, ch, urn,
                    IF "sticker" \in media THEN "sticker"
                    ELSE IF "video" \in media THEN "video"
                    ELSE IF "voice" \in media THEN "voice" ELSE "document")
            ELSE IF Has(req, "location")
            THEN Reply(CreateIncoming(st0, ch, urn, Get(req, "location"), PENDING, "geo"),
                       200, "Message Accepted: id")
            ELSE
            LET r1 == IF Has(req, "photo") THEN CreateMediaMessage(req, st0, ch, urn, "photo")
                      ELSE Reply(st0, 200, "")
                text == IF Has(req, "contact") /\ TelegramContactText(Get(req, "contact")) # ""
                        THEN TelegramContactText(Get(req, "contact"))
                        ELSE IF Has(req, "text") THEN Get(req, "text") ELSE ""
                has_text == Has(req, "text")
                            \/ (Has(req, "contact")
                                /\ TelegramContactText(Get(req, "contact")) # "")
            IN  IF r1.resp.exc # "" THEN r1
                ELSE IF has_text
                THEN Reply(CreateIncoming(r1.st, ch, urn, text, PENDING, NoMedia),
                           200, "Message Accepted: id")
                ELSE Reply(r1.st, 200, "No message, ignored.")

----------------------------------------------------------------------------
(* Specification: requests handled one at a time *)

NoReq == MkReq("none", "", <<>>, <<>>, NoEnv)
NoResp == [code |-> 0, body |-> "", exc |-> ""]

\* a channel as provisioning creates it
Channel(ctype) ==
    [channel_type |-> ctype, address |-> WithPlus(ChanDigits), is_active |-> TRUE,
     org |-> "org1", role_answer |-> TRUE, scheme |-> "tel", auth_token |-> ChanToken,
     api_id |-> ChanApiId, nexmo_uuid |-> OrgNexmoUuid, secret |-> ChanSecret,
     is_anon |-> FALSE]

ChannelTypes ==
    {TYPE.TWIML, TYPE.TWILIO, TYPE.TWILIO_MESSAGING_SERVICE, TYPE.EXTERNAL,
     TYPE.SHAQODOON, TYPE.YO, TYPE.M3TECH, TYPE.KANNEL, TYPE.AFRICAS_TALKING,
     TYPE.ZENVIA, TYPE.INFOBIP, TYPE.HUB9, TYPE.HIGH_CONNECTION, TYPE.BLACKMYNA,
     TYPE.SMSCENTRAL, TYPE.NEXMO, TYPE.VERBOICE, TYPE.VUMI, TYPE.VUMI_USSD,
     TYPE.CLICKATELL, TYPE.PLIVO, TYPE.TWITTER, TYPE.START, TYPE.CHIKKA, TYPE.JASMIN,
     TYPE.MBLOX, TYPE.VIBER, TYPE.LINE, TYPE.GLOBE, TYPE.FACEBOOK, TYPE.TELEGRAM}

\* an outgoing message as the sender left it
OutMsg(status) ==
    [channel |-> ChanUuid, direction |-> OUTGOING, status |-> status,
     external_id |-> "e1", urn |-> URNFromTel(WithPlus(SenderDigits)),
     text |-> "out", media |-> NoMedia, broadcast |-> TRUE]

\* the outgoing messages the sender has left on the channel: one, or the two
\* parts of a multi-part send that share the provider's id
InitMsgs ==
    {<<OutMsg(s)>> : s \in OutStatuses}
        \cup {<<OutMsg(s), OutMsg(WIRED)>> : s \in OutStatuses}

Init ==
    /\ \E t \in ChannelTypes : channels = (ChanUuid :> Channel(t))
    /\ msgs \in InitMsgs
    /\ contacts = {URNFromTel(WithPlus(SenderDigits))}
    /\ events = {}
    /\ last = [req |-> NoReq, resp |-> NoResp, prev |-> msgs]
    /\ procs = <<>>

HasType(ctype) == \E u \in DOMAIN channels : channels[u].channel_type = ctype

\* no request is being handled
Idle == last.req.h = "none"

\* BaseChannelHandler.dispatch returns the handler's response to the server
Respond ==
    /\ ~Idle
    /\ last' = [req |-> NoReq, resp |-> NoResp, prev |-> msgs]
    /\ UNCHANGED <<channels, msgs, contacts, events, procs>>

\* one request handled: the store and the response the handler produced
Handled(req, r) ==
    /\ Len(r.st.msgs) <= MaxMsgs
    /\ msgs' = r.st.msgs
    /\ contacts' = r.st.contacts
    /\ events' = r.st.events
    /\ last' = [req |-> req, resp |-> r.resp, prev |-> msgs]
    /\ UNCHANGED <<channels, procs>>

Cur == Store(msgs, contacts, events)

TwimlAPIHandler ==
    LET \* the uuid of the route: /twiml_api/<uuid>/ has one, /twilio/ has none
        TwimlRouteUuids(h) == IF h = "twilio" THEN {<<>>} ELSE {ChanUuid, UnknownUuid}
        TwimlRoute(h) == IF h = "twilio" THEN <<>> ELSE ChanUuid
        TwimlEnvs == [connected : BOOLEAN, flow : {FALSE}]
        Sigs == {ChanToken, "bad"}
        TwimlCallbackRequests(h) ==
            {MkReq(h, "callback", uuid,
                   Without([To |-> WithPlus(ChanDigits), action |-> "callback", id |-> id,
                            SmsStatus |-> s, sig |-> sig], drop), env) :
                uuid \in TwimlRouteUuids(h),
                id \in {"1", "9"}, s \in {"sent", "delivered", "failed", "queued"},
                sig \in Sigs, drop \in {{}, {"sig"}, {"id"}}, env \in TwimlEnvs}
        TwimlReceivedBase ==
            [To |-> WithPlus(ChanDigits), ToCountry |-> "KE", From |-> WithPlus(SenderDigits),
             Body |-> "hello", NumMedia |-> "0", MediaUrls |-> "0", sig |-> ChanToken]
        TwimlReceivedRequests(h) ==
            {MkReq(h, "received", uuid, [TwimlReceivedBase EXCEPT !.To = to, !.sig = sig],
                   [connected |-> c, flow |-> FALSE]) :
                uuid \in TwimlRouteUuids(h),
                to \in {WithPlus(ChanDigits), Bare(ChanDigits), WithPlus(OtherDigits)},
                sig \in Sigs, c \in BOOLEAN}
            \cup
            {MkReq(h, "received", TwimlRoute(h),
                   [TwimlReceivedBase EXCEPT !.Body = body, !.NumMedia = nm, !.MediaUrls = mu,
                                             !.sig = sig],
                   [connected |-> TRUE, flow |-> FALSE]) :
                body \in {"hello", ""}, nm \in {"0", "1", "2"}, mu \in {"1", "2"}, sig \in Sigs}
            \cup
            {MkReq(h, "received", TwimlRoute(h),
                   Without([TwimlReceivedBase EXCEPT !.sig = sig], drop),
                   [connected |-> TRUE, flow |-> FALSE]) :
                sig \in Sigs, drop \in {{"NumMedia"}, {"Body"}, {"From"}, {"To"}, {"sig"}}}
        TwimlRingingRequests(h) ==
            {MkReq(h, "received", TwimlRoute(h),
                   [To |-> to, From |-> WithPlus(SenderDigits), CallSid |-> "call1",
                    Direction |-> "inbound", CallStatus |-> "ringing", Body |-> "hello",
                    sig |-> sig], env) :
                to \in {WithPlus(ChanDigits), WithPlus(OtherDigits)}, sig \in Sigs,
                env \in [connected : BOOLEAN, flow : BOOLEAN]}
        TwimlRequests(h) ==
            TwimlCallbackRequests(h) \cup TwimlReceivedRequests(h) \cup TwimlRingingRequests(h)
                \cup {MkReq(h, "other", TwimlRoute(h),
                            [To |-> WithPlus(ChanDigits), action |-> "other", sig |-> ChanToken],
                            [connected |-> TRUE, flow |-> FALSE])}
    IN  \E h \in {"twiml_api", "twilio"} :
            /\ Idle /\ HasType(TwimlChannelType(h))
            /\ \E req \in TwimlRequests(h) : Handled(req, TwimlPost(h, req, Cur))

TwilioMessagingServiceHandler ==
    LET TwilioMessagingServiceRequests ==
            {MkReq("twilio_messaging_service", "receive", uuid,
                   Without([From |-> WithPlus(SenderDigits), Body |-> body, sig |-> sig], drop),
                   env) :
                uuid \in {ChanUuid, UnknownUuid}, body \in {"hello", ""},
                sig \in {ChanToken, "bad"}, drop \in {{}, {"From"}, {"Body"}, {"sig"}},
                env \in [connected : BOOLEAN, flow : {FALSE}]}
    IN  /\ Idle /\ HasType(TYPE.TWILIO_MESSAGING_SERVICE)
        /\ \E req \in TwilioMessagingServiceRequests :
                Handled(req, TwilioMessagingServicePost(req, Cur))

ExternalHandler ==
    LET Route(len36, val) == [len36 |-> len36, val |-> val]
        ExternalRoutes == {Route(TRUE, ChanUuid), Route(TRUE, UnknownUuid),
                           Route(FALSE, Bare(ChanDigits)), Route(FALSE, Bare(OtherDigits))}
        ExternalRequests(h) ==
            {MkReq(h, a, r, Without([id |-> id], drop), NoEnv) :
                a \in ExternalActions(h) \ {"received"}, r \in ExternalRoutes,
                id \in {"1", "2", "9", "x"}, drop \in {{}, {"id"}}}
            \cup
            {MkReq(h, "received", r,
                   Without([from |-> WithPlus(SenderDigits), sender |-> WithPlus(OtherDigits),
                            text |-> "hello", message |-> "hi", date |-> d], drop), NoEnv) :
                r \in ExternalRoutes, d \in {"ts_ok", "ts_bad"},
                drop \in {{"sender", "message"}, {"from", "text", "date"}, {"from", "sender"},
                          {"text", "message"}, {"sender", "message", "date"}}}
    IN  \E h \in {"external", "shaqodoon", "yo", "m3tech"} :
            /\ Idle /\ HasType(ExternalChannelType(h))
            /\ \E req \in ExternalRequests(h) : Handled(req, ExternalPost(h, req, Cur))

KannelHandler ==
    LET KannelRequests ==
            {MkReq("kannel", "status", u, Without([id |-> id, status |-> s], drop), NoEnv) :
                u \in UuidRoutes, id \in {"1", "2", "9"},
                s \in {"1", "2", "4", "8", "16", "077"},
                drop \in {{}, {"id"}, {"status"}, {"id", "status"}}}
            \cup
            {MkReq("kannel", "receive", u,
                   Without([id |-> "e1", ts |-> ts, message |-> "hello",
                            sender |-> WithPlus(SenderDigits)], drop), NoEnv) :
                u \in UuidRoutes, ts \in {"ts_ok", "ts_bad"},
                drop \in {{}, {"id"}, {"ts"}, {"message"}, {"sender"}}}
    IN  /\ Idle /\ HasType(TYPE.KANNEL)
        /\ \E req \in KannelRequests : Handled(req, KannelPost(req, Cur))

AfricasTalkingHandler ==
    LET AfricasTalkingRequests ==
            {MkReq("africastalking", "delivery", u, Without([id |-> id, status |-> s], drop), NoEnv) :
                u \in UuidRoutes, id \in {"e1", "e9"},
                s \in {"Success", "Sent", "Buffered", "Rejected", "Failed", "077"},
                drop \in {{}, {"id"}, {"status"}}}
            \cup
            {MkReq("africastalking", "callback", u,
                   Without([from |-> WithPlus(SenderDigits), text |-> "hello"], drop), NoEnv) :
                u \in UuidRoutes, drop \in {{}, {"from"}, {"text"}}}
            \cup
            {AsGet(MkReq("africastalking", "callback", ChanUuid,
                         [from |-> WithPlus(SenderDigits), text |-> "hello"], NoEnv))}
    IN  /\ Idle /\ HasType(TYPE.AFRICAS_TALKING)
        /\ \E req \in AfricasTalkingRequests : Handled(req, AfricasTalkingPost(req, Cur))

ZenviaHandler ==
    LET ZenviaRequests ==
            {MkReq("zenvia", "status", u, Without([id |-> id, status |-> s], drop), NoEnv) :
                u \in UuidRoutes, id \in {"1", "2", "9"}, s \in {"120", "111", "999", "abc"},
                drop \in {{}, {"id"}, {"status"}}}
            \cup
            {MkReq("zenvia", "receive", u,
                   Without([date |-> d, from |-> WithPlus(SenderDigits), msg |-> "hello"], drop),
                   NoEnv) :
                u \in UuidRoutes, d \in {"ts_ok", "ts_bad"},
                drop \in {{}, {"date"}, {"from"}, {"msg"}}}
    IN  /\ Idle /\ HasType(TYPE.ZENVIA)
        /\ \E req \in ZenviaRequests : Handled(req, ZenviaPost(req, Cur))

InfobipHandler ==
    LET InfobipActions == {"sent", "delivered", "failed", "received"}
        InfobipRequests ==
            {MkReq("infobip", a, u, Without([xml |-> "ok", message |-> "m", id |-> id,
                                             status |-> s], drop), NoEnv) :
                a \in {"delivered"}, u \in UuidRoutes, id \in {"e1", "e9"},
                s \in {"DELIVERED", "SENT", "NOT_SENT", "REJECTED", "PENDING"},
                drop \in {{}, {"id"}, {"status"}, {"message", "id", "status"}}}
            \cup
            {MkReq("infobip", a, ChanUuid, [xml |-> "bad"], NoEnv) : a \in InfobipActions}
            \cup
            {AsGet(MkReq("infobip", a, u,
                         Without([sender |-> WithPlus(SenderDigits), text |-> "hello",
                                  receiver |-> r], drop), NoEnv)) :
                a \in InfobipActions, u \in UuidRoutes,
                r \in {Bare(ChanDigits), WithPlus(ChanDigits), Bare(OtherDigits)},
                drop \in {{}, {"sender"}, {"text"}, {"receiver"}}}
    IN  /\ Idle /\ HasType(TYPE.INFOBIP)
        /\ \E req \in InfobipRequests : Handled(req, InfobipHandle(req, Cur))

Hub9Handler ==
    LET Hub9Requests ==
            {MkReq("hub9", "delivered", u, Without([messageid |-> id, status |-> s], drop), NoEnv) :
                u \in UuidRoutes, id \in {"1", "2", "9"},
                s \in {"10", "21", "5", "-1", "77", "abc"}, drop \in {{}, {"messageid"}, {"status"}}}
            \cup
            {MkReq("hub9", a, u,
                   Without([original |-> Bare(SenderDigits), sendto |-> to, message |-> "hello",
                            messageid |-> "e1"], drop), NoEnv) :
                a \in {"received", "sent", "failed"}, u \in UuidRoutes,
                to \in {Bare(ChanDigits), WithPlus(ChanDigits), Bare(OtherDigits)},
                drop \in {{}, {"original"}, {"sendto"}, {"message"}}}
    IN  /\ Idle /\ HasType(TYPE.HUB9)
        /\ \E req \in Hub9Requests : Handled(req, Hub9Get(req, Cur))

HighConnectionHandler ==
    LET HighConnectionRequests ==
            {MkReq("hcnx", "status", u, Without([ret_id |-> id, status |-> s], drop), NoEnv) :
                u \in UuidRoutes, id \in {"1", "2", "9"}, s \in {"4", "6", "2", "16", "77", "abc"},
                drop \in {{}, {"ret_id"}, {"status"}}}
            \cup
            {MkReq("hcnx", "receive", u,
                   Without([TO |-> WithPlus(ChanDigits), FROM |-> WithPlus(SenderDigits),
                            MESSAGE |-> "hello", RECEPTION_DATE |-> d], drop), NoEnv) :
                u \in UuidRoutes, d \in {"ts_ok", "ts_bad"},
                drop \in {{}, {"TO"}, {"FROM"}, {"MESSAGE"}, {"RECEPTION_DATE"}}}
    IN  /\ Idle /\ HasType(TYPE.HIGH_CONNECTION)
        /\ \E req \in HighConnectionRequests : Handled(req, HighConnectionGet(req, Cur))

BlackmynaHandler ==
    LET BlackmynaRequests ==
            {MkReq("blackmyna", "status", u, Without([id |-> id, status |-> s], drop), NoEnv) :
                u \in UuidRoutes, id \in {"e1", "e9"}, s \in {"8", "1", "2", "16", "77", "abc"},
                drop \in {{}, {"id"}, {"status"}}}
            \cup
            {MkReq("blackmyna", "receive", u,
                   Without([to |-> to, from |-> WithPlus(SenderDigits), text |-> "hello"], drop),
                   NoEnv) :
                u \in UuidRoutes,
                to \in {WithPlus(ChanDigits), Bare(ChanDigits), WithPlus(OtherDigits)},
                drop \in {{}, {"to"}, {"from"}, {"text"}}}
    IN  /\ Idle /\ HasType(TYPE.BLACKMYNA)
        /\ \E req \in BlackmynaRequests : Handled(req, BlackmynaGet(req, Cur))

SMSCentralHandler ==
    LET SMSCentralRequests ==
            {MkReq("smscentral", "receive", u,
                   Without([mobile |-> WithPlus(SenderDigits), message |-> "hello"], drop), NoEnv) :
                u \in UuidRoutes, drop \in {{}, {"mobile"}, {"message"}}}
    IN  /\ Idle /\ HasType(TYPE.SMSCENTRAL)
        /\ \E req \in SMSCentralRequests : Handled(req, SMSCentralGet(req, Cur))

NexmoHandler ==
    LET NexmoRequests ==
            {MkReq("nexmo", "status", u, Without([to |-> to, messageId |-> id, status |-> s], drop),
                   NoEnv) :
                u \in {OrgNexmoUuid, UnknownUuid}, to \in {Bare(ChanDigits), Bare(OtherDigits)},
                id \in {"e1", "e9"},
                s \in {"delivered", "accepted", "buffered", "expired", "failed", "077"},
                drop \in {{}, {"to"}, {"messageId"}, {"status"}}}
            \cup
            {MkReq("nexmo", "receive", u,
                   Without([to |-> to, messageId |-> "e1", msisdn |-> Bare(SenderDigits),
                            text |-> "hello"], drop), NoEnv) :
                u \in {OrgNexmoUuid, UnknownUuid},
                to \in {Bare(ChanDigits), WithPlus(ChanDigits), Bare(OtherDigits)},
                drop \in {{}, {"to"}, {"messageId"}, {"msisdn"}, {"text"}}}
    IN  /\ Idle /\ HasType(TYPE.NEXMO)
        /\ \E req \in NexmoRequests : Handled(req, NexmoGet(req, Cur))

VerboiceHandler ==
    LET VerboiceRequests ==
            {AsGet(MkReq("verboice", a, u,
                         Without([From |-> WithPlus(SenderDigits), CallSid |-> "call1",
                                  CallStatus |-> "completed"], drop), [call |-> c])) :
                a \in {"status", "receive"}, u \in UuidRoutes, c \in BOOLEAN,
                drop \in {{}, {"From"}, {"CallSid"}, {"CallStatus"}}}
            \cup
            {MkReq("verboice", "status", ChanUuid,
                   [From |-> WithPlus(SenderDigits), CallSid |-> "call1",
                    CallStatus |-> "completed"], [call |-> TRUE])}
    IN  /\ Idle /\ HasType(TYPE.VERBOICE)
        /\ \E req \in VerboiceRequests : Handled(req, VerboiceHandle(req, Cur))

VumiHandler ==
    LET VumiRequests ==
            {MkReq("vumi", "event", u,
                   Without([json |-> "ok", transport_type |-> tt, user_message_id |-> id,
                            event_type |-> e, delivery_status |-> ds, nack_reason |-> nr], drop),
                   NoEnv) :
                u \in UuidRoutes, tt \in {"sms", "ussd"}, id \in {"e1", "e9"},
                e \in {"ack", "nack", "delivery_report", "077"}, ds \in {"delivered", "failed"},
                nr \in {"Unknown address."},
                drop \in {{"nack_reason"}, {"delivery_status"}, {"delivery_status", "nack_reason"},
                          {"user_message_id", "nack_reason"}, {"event_type", "nack_reason"},
                          {"user_message_id", "event_type", "nack_reason"}}}
            \cup
            {MkReq("vumi", "receive", u,
                   Without([json |-> "ok", transport_type |-> tt, timestamp |-> ts,
                            from_addr |-> WithPlus(SenderDigits), content |-> "hello",
                            message_id |-> "e1", session_event |-> se], drop), NoEnv) :
                u \in UuidRoutes, tt \in {"sms", "ussd"}, ts \in {"ts_ok", "ts_bad"},
                se \in {"new", "close"},
                drop \in {{}, {"timestamp"}, {"from_addr"}, {"content"}, {"message_id"},
                          {"timestamp", "from_addr", "content", "message_id"}}}
            \cup
            {MkReq("vumi", a, ChanUuid, [json |-> "bad"], NoEnv) : a \in {"event", "receive"}}
            \cup
            {AsGet(MkReq("vumi", "receive", ChanUuid, [json |-> "ok"], NoEnv))}
    IN  /\ Idle /\ (HasType(TYPE.VUMI) \/ HasType(TYPE.VUMI_USSD))
        /\ \E req \in VumiRequests : Handled(req, VumiHandle(req, Cur))

ClickatellHandler ==
    LET ClickatellRequests ==
            {MkReq("clickatell", "status", u,
                   Without([api_id |-> api, apiMsgId |-> id, status |-> s], drop), NoEnv) :
                u \in UuidRoutes, api \in {ChanApiId, "api9"}, id \in {"e1", "e9"},
                s \in {"001", "002", "003", "004", "077"},
                drop \in {{}, {"api_id"}, {"apiMsgId"}, {"status"}}}
            \cup
            {MkReq("clickatell", "receive", u,
                   Without([api_id |-> ChanApiId, from |-> WithPlus(SenderDigits), text |-> t,
                            moMsgId |-> "e1", timestamp |-> ts, charset |-> cs], drop), NoEnv) :
                u \in UuidRoutes, t \in {"hello", "hello_utf16be"}, ts \in {"ts_ok", "ts_bad"},
                cs \in {"UTF-16BE", "ISO-8859-1"},
                drop \in {{}, {"charset"}, {"from"}, {"text"}, {"moMsgId"}, {"timestamp"}}}
            \cup
            {MkReq("clickatell", "receive", u,
                   Without([api_id |-> "api9", from |-> WithPlus(SenderDigits), text |-> "hello",
                            moMsgId |-> "e1", timestamp |-> "ts_ok"], drop), NoEnv) :
                u \in UuidRoutes, drop \in {{}, {"api_id"}}}
    IN  /\ Idle /\ HasType(TYPE.CLICKATELL)
        /\ \E req \in ClickatellRequests : Handled(req, ClickatellPost(req, Cur))

PlivoHandler ==
    LET PlivoRequests ==
            {MkReq("plivo", "status", u,
                   Without([From |-> from, To |-> WithPlus(SenderDigits), MessageUUID |-> id,
                            ParentMessageUUID |-> "e1", Status |-> s], drop), NoEnv) :
                u \in UuidRoutes, from \in {WithPlus(ChanDigits), Bare(ChanDigits), Bare(OtherDigits)},
                id \in {"e1", "e9"},
                s \in {"queued", "sent", "delivered", "undelivered", "rejected", "077"},
                drop \in {{"ParentMessageUUID"}, {}, {"From", "ParentMessageUUID"},
                          {"To", "ParentMessageUUID"}, {"MessageUUID", "ParentMessageUUID"},
                          {"Status", "ParentMessageUUID"}}}
            \cup
            {MkReq("plivo", "receive", u,
                   Without([From |-> WithPlus(SenderDigits), To |-> to, MessageUUID |-> "e1",
                            Text |-> "hello"], drop), NoEnv) :
                u \in UuidRoutes,
                to \in {WithPlus(ChanDigits), Bare(ChanDigits), Bare(OtherDigits), <<>>},
                drop \in {{}, {"From"}, {"To"}, {"MessageUUID"}, {"Text"}}}
    IN  /\ Idle /\ HasType(TYPE.PLIVO)
        /\ \E req \in PlivoRequests : Handled(req, PlivoPost(req, Cur))

MageHandler ==
    LET MageRequests ==
            {MkReq("mage", "handle_message", <<>>,
                   Without([authorization |-> a, message_id |-> id], drop), NoEnv) :
                a \in {<<"Token", MageAuthToken>>, <<"Token", "bad">>, <<"Bearer", MageAuthToken>>,
                       <<"Token", MageAuthToken, "x">>},
                id \in {"1", "9", "abc"}, drop \in {{}, {"authorization"}, {"message_id"}}}
            \cup
            {MkReq("mage", "follow_notification", <<>>,
                   Without([authorization |-> a, channel_id |-> "1", contact_urn_id |-> c], drop),
                   NoEnv) :
                a \in {<<"Token", MageAuthToken>>, <<"Token", "bad">>},
                c \in {"1", "abc"}, drop \in {{}, {"channel_id"}}}
            \cup
            {AsGet(MkReq("mage", "handle_message", <<>>,
                         [authorization |-> <<"Token", MageAuthToken>>, message_id |-> "1"], NoEnv))}
    IN  /\ Idle /\ HasType(TYPE.TWITTER)
        /\ \E req \in MageRequests : Handled(req, MagePost(req, Cur))

StartHandler ==
    LET StartRequests ==
            {MkReq("start", "receive", u,
                   Without([xml |-> x, request_id |-> "e1", from |-> WithPlus(SenderDigits),
                            body |-> b], drop), NoEnv) :
                u \in UuidRoutes, x \in {"ok", "bad"}, b \in {"hello", ""},
                drop \in {{}, {"request_id"}, {"from"}, {"body"}}}
    IN  /\ Idle /\ HasType(TYPE.START)
        /\ \E req \in StartRequests : Handled(req, StartPost(req, Cur))

ChikkaHandler ==
    LET ChikkaRequests ==
            {MkReq("chikka", "", u,
                   Without([message_type |-> "outgoing", message_id |-> id, status |-> s], drop),
                   NoEnv) :
                u \in UuidRoutes, id \in {"1", "9", "abc"}, s \in {"SENT", "FAILED", "077"},
                drop \in {{}, {"message_type"}, {"message_id"}, {"status"}}}
            \cup
            {MkReq("chikka", "", u,
                   Without([message_type |-> mt, request_id |-> "e1",
                            mobile_number |-> WithPlus(SenderDigits), message |-> "hello",
                            timestamp |-> ts], drop), NoEnv) :
                u \in UuidRoutes, mt \in {"incoming", "other"}, ts \in {"ts_ok", "ts_bad"},
                drop \in {{}, {"request_id"}, {"mobile_number"}, {"message"}, {"timestamp"}}}
    IN  /\ Idle /\ HasType(TYPE.CHIKKA)
        /\ \E req \in ChikkaRequests : Handled(req, ChikkaPost(req, Cur))

JasminHandler ==
    LET JasminRequests ==
            {MkReq("jasmin", "status", u, Without([id |-> id, dlvrd |-> d, err |-> e], drop), NoEnv) :
                u \in UuidRoutes, id \in {"e1", "e9"}, d \in {"0", "1"}, e \in {"0", "1"},
                drop \in {{}, {"id"}, {"dlvrd"}, {"err"}}}
            \cup
            {MkReq("jasmin", "receive", u,
                   Without([content |-> c, coding |-> cd, from |-> WithPlus(SenderDigits),
                            to |-> WithPlus(ChanDigits), id |-> "e1"], drop), NoEnv) :
                u \in UuidRoutes, c \in {"hello", "gsm7_00"}, cd \in {"0", "3"},
                drop \in {{}, {"content"}, {"coding"}, {"from"}, {"to"}, {"id"}}}
            \cup
            {AsGet(MkReq("jasmin", "status", ChanUuid, [id |-> "e1", dlvrd |-> "1", err |-> "0"],
                         NoEnv))}
    IN  /\ Idle /\ HasType(TYPE.JASMIN)
        /\ \E req \in JasminRequests : Handled(req, JasminHandle(req, Cur))

MbloxHandler ==
    LET MbloxRequests ==
            {MkReq("mblox", "", u,
                   Without([json |-> "ok", type |-> "recipient_delivery_report_sms",
                            batch_id |-> id, status |-> s], drop), NoEnv) :
                u \in UuidRoutes, id \in {"e1", "e9"},
                s \in {"Delivered", "Dispatched", "Aborted", "Rejected", "Failed", "Expired", "077"},
                drop \in {{}, {"batch_id"}, {"status"}}}
            \cup
            {MkReq("mblox", "", u,
                   Without([json |-> j, type |-> t, id |-> "e1", from |-> WithPlus(SenderDigits),
                            to |-> WithPlus(ChanDigits), body |-> "hello", received_at |-> "ts_ok"],
                           drop), NoEnv) :
                u \in UuidRoutes, j \in {"ok", "bad"}, t \in {"mo_text", "other"},
                drop \in {{}, {"type"}, {"id"}, {"from"}, {"to"}, {"body"}, {"received_at"}}}
            \cup
            {AsGet(MkReq("mblox", "", ChanUuid, [json |-> "ok", type |-> "mo_text"], NoEnv))}
    IN  /\ Idle /\ HasType(TYPE.MBLOX)
        /\ \E req \in MbloxRequests : Handled(req, MbloxHandle(req, Cur))

ViberHandler ==
    LET ViberRequests ==
            {MkReq("viber", "status", u, Without([json |-> j, message_token |-> id], drop), NoEnv) :
                u \in UuidRoutes, j \in {"ok", "bad"}, id \in {"e1", "e9"},
                drop \in {{}, {"message_token"}}}
            \cup
            {MkReq("viber", "receive", u,
                   Without([json |-> "ok", message_token |-> "e1",
                            phone_number |-> WithPlus(SenderDigits), time |-> "ts_ok",
                            message |-> "hello"], drop), NoEnv) :
                u \in UuidRoutes,
                drop \in {{}, {"message_token"}, {"phone_number"}, {"time"}, {"message"}}}
            \cup
            {AsGet(MkReq("viber", "status", ChanUuid, [json |-> "ok", message_token |-> "e1"],
                         NoEnv))}
    IN  /\ Idle /\ HasType(TYPE.VIBER)
        /\ \E req \in ViberRequests : Handled(req, ViberHandle(req, Cur))

LineHandler ==
    LET LineEvents ==
            {[source |-> s, type |-> t, text |-> "hello"] :
                s \in BOOLEAN, t \in {"text", "image", ""}}
        LineRequests ==
            {MkReq("line", "", u, [json |-> j, events |-> es], NoEnv) :
                u \in UuidRoutes, j \in {"ok", "bad"},
                es \in {<<>>} \cup {<<e>> : e \in LineEvents}
                       \cup {<<e, [source |-> TRUE, type |-> "text", text |-> "again"]>> :
                                e \in LineEvents}}
            \cup
            {MkReq("line", "", ChanUuid, [json |-> "ok"], NoEnv)}
    IN  /\ Idle /\ HasType(TYPE.LINE)
        /\ \E req \in LineRequests : Handled(req, LinePost(req, Cur))

GlobeHandler ==
    LET GlobeGood ==
            [dateTime |-> "ts_ok", senderAddress |-> URNFromTel(WithPlus(SenderDigits)),
             message |-> "hello", messageId |-> "g1",
             destinationAddress |-> URNFromTel(WithPlus(ChanDigits))]
        GlobeItems ==
            {GlobeGood,
             Without(GlobeGood, {"messageId"}),
             Without(GlobeGood, {"message"}),
             [GlobeGood EXCEPT !.destinationAddress = URNFromTel(WithPlus(OtherDigits))],
             [GlobeGood EXCEPT !.destinationAddress = URNFromParts("", <<>>)],
             [GlobeGood EXCEPT !.senderAddress = URNFromParts("", <<>>)],
             [GlobeGood EXCEPT !.dateTime = "ts_bad"]}
        GlobeRequests ==
            {MkReq("globe", "receive", u, [json |-> j, list |-> l], NoEnv) :
                u \in UuidRoutes, j \in {"ok", "bad"},
                l \in {<<>>} \cup {<<a>> : a \in GlobeItems} \cup {<<GlobeGood, a>> : a \in GlobeItems}}
            \cup
            {MkReq("globe", "receive", ChanUuid, [json |-> "ok"], NoEnv),
             AsGet(MkReq("globe", "receive", ChanUuid, [json |-> "ok", list |-> <<GlobeGood>>], NoEnv))}
    IN  /\ Idle /\ HasType(TYPE.GLOBE)
        /\ \E req \in GlobeRequests : Handled(req, GlobeHandle(req, Cur))

FacebookHandler ==
    LET Envelope(kind) ==
            [kind |-> kind, is_echo |-> FALSE, recipient |-> WithPlus(ChanDigits),
             content |-> "hello", payload |-> GET_STARTED, mid |-> "e1", timestamp |-> TRUE]
        FacebookEnvelopes ==
            {Envelope("message"),
             [Envelope("message") EXCEPT !.is_echo = TRUE],
             [Envelope("message") EXCEPT !.recipient = WithPlus(OtherDigits)],
             [Envelope("message") EXCEPT !.content = ""],
             [Envelope("message") EXCEPT !.mid = NoExt],
             [Envelope("message") EXCEPT !.timestamp = FALSE],
             Envelope("postback"),
             [Envelope("postback") EXCEPT !.payload = "other"],
             Envelope("delivery"),
             [Envelope("delivery") EXCEPT !.mid = "e9"],
             Envelope("read")}
        FacebookRequests ==
            {MkReq("facebook", "", u, [json |-> j, entry |-> "e", messaging |-> m], NoEnv) :
                u \in UuidRoutes, j \in {"ok", "bad"},
                m \in {<<>>} \cup {<<a>> : a \in FacebookEnvelopes}
                      \cup {<<Envelope("message"), a>> : a \in FacebookEnvelopes}
                      \cup {<<Envelope("delivery"), a>> : a \in FacebookEnvelopes}}
            \cup
            {MkReq("facebook", "", ChanUuid, p, NoEnv) : p \in {[json |-> "ok"],
                                                               [json |-> "ok", entry |-> "e"]}}
            \cup
            {MkReq("facebook", "", ChanUuid,
                   Without([json |-> "ok", entry |-> "e", messaging |-> m,
                            entry2 |-> <<[Envelope("message") EXCEPT !.mid = "e2"]>>], drop),
                   NoEnv) :
                m \in {<<Envelope("message")>>, <<Envelope("delivery")>>, <<Envelope("read")>>},
                drop \in {{}, {"messaging"}}}
            \cup
            {AsGet(MkReq("facebook", "", u,
                         Without([hub_mode |-> m, hub_verify_token |-> t, hub_challenge |-> "ch1"],
                                 drop), NoEnv)) :
                u \in UuidRoutes, m \in {"subscribe", "other"}, t \in {ChanSecret, "bad"},
                drop \in {{}, {"hub_mode"}, {"hub_verify_token"}}}
    IN  /\ Idle /\ HasType(TYPE.FACEBOOK)
        /\ \E req \in FacebookRequests : Handled(req, FacebookHandle(req, Cur))

TelegramHandler ==
    LET TelegramBodies ==
            {Without([json |-> "ok", message |-> "m", date |-> "d", first_name |-> "Eric",
                      caption |-> "cap", text |-> "hello"], drop) @@ extra :
                drop \in {{"caption", "text"}, {"caption"}, {"text"}, {}, {"first_name", "caption"},
                          {"date", "caption"}, {"message", "caption"}},
                extra \in {<<>>, [sticker |-> "f1"], [video |-> "f1"], [voice |-> "f1"],
                           [document |-> "f1"], [photo |-> "f1"], [location |-> "1,2"],
                           [contact |-> "both"], [contact |-> "first_name"],
                           [contact |-> "phone_number"], [contact |-> "none"],
                           [sticker |-> "f1", document |-> "f2"]}}
            \cup {[json |-> "bad"]}
        TelegramRequests ==
            {MkReq("telegram", "", u, p, [download |-> d]) :
                u \in UuidRoutes, p \in TelegramBodies, d \in {"ok", "none", "error"}}
    IN  /\ Idle /\ HasType(TYPE.TELEGRAM)
        /\ \E req \in TelegramRequests : Handled(req, TelegramPost(req, Cur))

Next ==
    \/ TwimlAPIHandler
    \/ TwilioMessagingServiceHandler
    \/ ExternalHandler
    \/ KannelHandler
    \/ AfricasTalkingHandler
    \/ ZenviaHandler
    \/ InfobipHandler
    \/ Hub9Handler
    \/ HighConnectionHandler
    \/ BlackmynaHandler
    \/ SMSCentralHandler
    \/ NexmoHandler
    \/ VerboiceHandler
    \/ VumiHandler
    \/ ClickatellHandler
    \/ PlivoHandler
    \/ MageHandler
    \/ StartHandler
    \/ ChikkaHandler
    \/ JasminHandler
    \/ MbloxHandler
    \/ ViberHandler
    \/ LineHandler
    \/ GlobeHandler
    \/ FacebookHandler
    \/ TelegramHandler
    \/ Respond

Spec == Init /\ [][Next]_vars

----------------------------------------------------------------------------
(* Specification: status callbacks handled concurrently.  Each worker runs *)
(* one status callback of KannelHandler, ClickatellHandler, PlivoHandler or *)
(* JasminHandler; every query and every save is a store step of its own,   *)
(* and the steps of different workers interleave.                          *)

MaxProcs == 2

\* the handlers whose status callbacks the workers run, by channel type
ConcHandlers ==
    [KN |-> "kannel", CT |-> "clickatell", PL |-> "plivo", JS |-> "jasmin"]

\* the message status the handler's table gives the provider's code
ConcStatus(h, code) ==
    CASE h = "kannel" -> KannelStatusChoice(code)
      [] h = "clickatell" -> ClickatellStatusChoice(code)
      [] h = "plivo" -> PlivoStatusChoice(code)
      [] OTHER -> IF code = "dlvrd" THEN DELIVERED ELSE IF code = "err" THEN FAILED ELSE ""

\* sms = Msg.objects.filter(channel=channel, pk=sms_id) for Kannel,
\* filter(channel=channel, external_id=sms_id) for the others
ConcMatch(h, st, key) ==
    IF h = "kannel" THEN ByPk(st, ChanUuid, key) ELSE ByExt(st, ChanUuid, key)

InitConc ==
    /\ \E t \in DOMAIN ConcHandlers : channels = (ChanUuid :> Channel(t))
    /\ msgs \in InitMsgs
    /\ contacts = {URNFromTel(WithPlus(SenderDigits))}
    /\ events = {}
    /\ last = [req |-> NoReq, resp |-> NoResp, prev |-> msgs]
    /\ procs = <<>>

\* a status callback arrives and a worker takes it
ConcArrive ==
    /\ Len(procs) < MaxProcs
    /\ \E t \in DOMAIN ConcHandlers, key \in {"1", "e1"},
          code \in {"1", "2", "4", "003", "004", "005", "sent", "delivered", "rejected",
                    "dlvrd", "err", "077"} :
          /\ HasType(t)
          /\ ConcStatus(ConcHandlers[t], code) \in {SENT, DELIVERED, FAILED}
          /\ procs' = Append(procs, [h |-> ConcHandlers[t], key |-> key,
                                     status |-> ConcStatus(ConcHandlers[t], code),
                                     pc |-> "lookup", ids |-> {}])
    /\ UNCHANGED <<channels, msgs, contacts, events, last>>

\* if not sms: the queryset is evaluated and its rows are kept
ConcLookup ==
    \E p \in DOMAIN procs :
        /\ procs[p].pc = "lookup"
        /\ LET sms == ConcMatch(procs[p].h, Cur, procs[p].key)
           IN procs' = [procs EXCEPT ![p].ids = sms,
                                     ![p].pc = IF sms = {} THEN "done"
                                               ELSE IF procs[p].status = SENT THEN "filter"
                                               ELSE "write"]
        /\ UNCHANGED <<channels, msgs, contacts, events, last>>

\* for sms_obj in sms.filter(status__in=[PENDING, QUEUED, WIRED]): a new query
ConcFilter ==
    \E p \in DOMAIN procs :
        /\ procs[p].pc = "filter"
        /\ procs' = [procs EXCEPT ![p].ids = {i \in @ : msgs[i].status \in
                                                    {PENDING, QUEUED, WIRED}},
                                  ![p].pc = "write"]
        /\ UNCHANGED <<channels, msgs, contacts, events, last>>

\* a worker that saves a row only while no other worker is in its loop
ConcWrite_WaitsForOthers ==
    \E p \in DOMAIN procs :
        /\ procs[p].pc = "write"
        /\ \A q \in DOMAIN procs \ {p} : procs[q].pc # "write"
        /\ LET i == First(procs[p].ids)
               tracked == procs[p].h \in {"clickatell", "plivo"}
               st1 == IF i = 0
                      THEN IF tracked THEN UpdateBroadcast(Cur, ConcMatch(procs[p].h, Cur,
                                                                         procs[p].key))
                           ELSE Cur
                      ELSE IF tracked /\ procs[p].status = FAILED
                      THEN FailAllTracked(Cur, {i})
                      ELSE ApplyAll(Cur, {i}, procs[p].status)
           IN /\ msgs' = st1.msgs
              /\ events' = st1.events
              /\ procs' = [procs EXCEPT ![p].ids = @ \ {i},
                                        ![p].pc = IF i = 0 THEN "done" ELSE "write"]
        /\ UNCHANGED <<channels, contacts, last>>

\* one turn of the loop: sms_obj.status_sent(), status_delivered() or fail()
\* saves the row; after the last row the broadcast is updated
ConcWrite ==
    \E p \in DOMAIN procs :
        /\ procs[p].pc = "write"
        /\ LET i == First(procs[p].ids)
               tracked == procs[p].h \in {"clickatell", "plivo"}
               st1 == IF i = 0
                      THEN IF tracked THEN UpdateBroadcast(Cur, ConcMatch(procs[p].h, Cur,
                                                                         procs[p].key))
                           ELSE Cur
                      ELSE IF tracked /\ procs[p].status = FAILED
                      THEN FailAllTracked(Cur, {i})
                      ELSE ApplyAll(Cur, {i}, procs[p].status)
           IN /\ msgs' = st1.msgs
              /\ events' = st1.events
              /\ procs' = [procs EXCEPT ![p].ids = @ \ {i},
                                        ![p].pc = IF i = 0 THEN "done" ELSE "write"]
        /\ UNCHANGED <<channels, contacts, last>>

NextConc == ConcArrive \/ ConcLookup \/ ConcFilter \/ ConcWrite

SpecConc == InitConc /\ [][NextConc]_vars

\* handling stops inside the loop or before the broadcast update: a row's save
\* raises, or the serving layer's timeout ends the worker; the rows saved so
\* far were each committed by their own save
ConcStop ==
    \E p \in DOMAIN procs :
        /\ procs[p].pc = "write"
        /\ procs' = [procs EXCEPT ![p].pc = "stopped"]
        /\ UNCHANGED <<channels, msgs, contacts, events, last>>

SpecStop == InitConc /\ [][NextConc \/ ConcStop]_vars

\* the workers under fair scheduling: a worker that can take its next store
\* step is not passed over forever
InitFair ==
    /\ \E t \in DOMAIN ConcHandlers : channels = (ChanUuid :> Channel(t))
    /\ msgs \in {<<OutMsg(s), OutMsg(WIRED)>> : s \in {WIRED, DELIVERED}}
    /\ contacts = {URNFromTel(WithPlus(SenderDigits))}
    /\ events = {}
    /\ last = [req |-> NoReq, resp |-> NoResp, prev |-> msgs]
    /\ procs = <<>>

SpecFair ==
    /\ InitFair
    /\ [][NextConc]_vars
    /\ WF_vars(ConcLookup) /\ WF_vars(ConcFilter) /\ WF_vars(ConcWrite)

----------------------------------------------------------------------------
(* Specification over the channel table: the channel of the route may have *)
(* been released (is_active False) or have no organization, and a second   *)
(* channel of another provider type answers to another number.             *)

InitChan ==
    /\ \E t \in ChannelTypes, a \in BOOLEAN, o \in {"org1", "none"} :
          channels = (ChanUuid :> [Channel(t) EXCEPT !.is_active = a, !.org = o])
                     @@ (<<"u2">> :> [Channel(TYPE.KANNEL) EXCEPT
                                        !.address = WithPlus(OtherDigits)])
    /\ msgs \in {<<OutMsg(WIRED)>>, <<OutMsg(WIRED), OutMsg(WIRED)>>}
    /\ contacts = {URNFromTel(WithPlus(SenderDigits))}
    /\ events = {}
    /\ last = [req |-> NoReq, resp |-> NoResp, prev |-> msgs]
    /\ procs = <<>>

SpecChan == InitChan /\ [][Next]_vars

\* a Telegram or Facebook channel of an organization that may be anonymized;
\* the senders of these channels have no contact yet
InitAnon ==
    /\ \E t \in {TYPE.TELEGRAM, TYPE.FACEBOOK}, anon \in BOOLEAN :
          channels = (ChanUuid :> [Channel(t) EXCEPT !.is_anon = anon])
    /\ msgs \in InitMsgs
    /\ contacts = {URNFromTel(WithPlus(SenderDigits))}
    /\ events = {}
    /\ last = [req |-> NoReq, resp |-> NoResp, prev |-> msgs]
    /\ procs = <<>>

SpecAnon == InitAnon /\ [][TelegramHandler \/ FacebookHandler \/ Respond]_vars

\* the receive handlers that store the provider's id with a second write,
\* by channel type
RecvHandlers == [VM |-> "vumi", GL |-> "globe", NX |-> "nexmo"]

\* a Vumi, Globe or Nexmo channel with its sent messages
InitRecv ==
    /\ \E t \in DOMAIN RecvHandlers : channels = (ChanUuid :> Channel(t))
    /\ msgs \in InitMsgs
    /\ contacts = {URNFromTel(WithPlus(SenderDigits))}
    /\ events = {}
    /\ last = [req |-> NoReq, resp |-> NoResp, prev |-> msgs]
    /\ procs = <<>>

\* Msg.create_incoming of a receive request: the row is inserted and its
\* handling enqueued; the worker keeps the object it got back.  A Vumi
\* message of a closed session is stored INTERRUPTED and gets no external id
RecvCreate ==
    /\ Len(procs) < MaxProcs
    /\ Len(msgs) < MaxMsgs
    /\ \E t \in DOMAIN RecvHandlers, ext \in {"e1", "e2"}, close \in BOOLEAN :
          /\ HasType(t)
          /\ close => RecvHandlers[t] = "vumi"
          /\ LET st1 == CreateIncoming(Cur, ChanUuid, URNFromTel(WithPlus(SenderDigits)),
                                       "hello", IF close THEN INTERRUPTED ELSE PENDING,
                                       NoMedia)
             IN /\ msgs' = st1.msgs
                /\ contacts' = st1.contacts
                /\ events' = st1.events
                /\ procs' = Append(procs, [h |-> RecvHandlers[t], id |-> NewId(st1),
                                           ext |-> ext, loaded |-> st1.msgs[NewId(st1)],
                                           found |-> "",
                                           pc |-> IF close THEN "done" ELSE "write"])
    /\ UNCHANGED <<channels, last>>

\* the handling task enqueued by create_incoming runs and marks the pending
\* inbound message handled
RecvHandle ==
    \E i \in 1..Len(msgs) :
        /\ msgs[i].direction = INCOMING
        /\ msgs[i].status = PENDING
        /\ msgs' = [msgs EXCEPT ![i].status = "H"]
        /\ UNCHANGED <<channels, contacts, events, last, procs>>

\* a worker that saves the whole object it got from create_incoming
RecvWrite_SavesWholeRow ==
    \E p \in DOMAIN procs :
        /\ procs[p].pc = "write"
        /\ msgs' = [msgs EXCEPT ![procs[p].id] =
                                    [procs[p].loaded EXCEPT !.external_id = procs[p].ext]]
        /\ procs' = [procs EXCEPT ![p].pc = "done", ![p].found = msgs[procs[p].id].status]
        /\ UNCHANGED <<channels, contacts, events, last>>

\* Msg.objects.filter(pk=msg.id).update(external_id=...) for Vumi and Globe,
\* sms.save(update_fields=['external_id']) for Nexmo: one column of the
\* stored row is written; found keeps the status the row had at that moment
RecvWrite ==
    \E p \in DOMAIN procs :
        /\ procs[p].pc = "write"
        /\ msgs' = SetExternalId(Cur, procs[p].id, procs[p].ext).msgs
        /\ procs' = [procs EXCEPT ![p].pc = "done", ![p].found = msgs[procs[p].id].status]
        /\ UNCHANGED <<channels, contacts, events, last>>

SpecRecv == InitRecv /\ [][RecvCreate \/ RecvHandle \/ RecvWrite]_vars

----------------------------------------------------------------------------
(* Properties of the handlers.  last.req is the request just handled,     *)
(* last.resp its response and last.prev the Msg table before it.           *)

\* the handler class the url of the request selects, and its get or post
Handle(req, st) ==
    CASE req.h \in {"twiml_api", "twilio"} -> TwimlPost(req.h, req, st)
      [] req.h = "twilio_messaging_service" -> TwilioMessagingServicePost(req, st)
      [] req.h \in {"external", "shaqodoon", "yo", "m3tech"} -> ExternalPost(req.h, req, st)
      [] req.h = "kannel" -> KannelPost(req, st)
      [] req.h = "africastalking" -> AfricasTalkingPost(req, st)
      [] req.h = "zenvia" -> ZenviaPost(req, st)
      [] req.h = "infobip" -> InfobipHandle(req, st)
      [] req.h = "hub9" -> Hub9Get(req, st)
      [] req.h = "hcnx" -> HighConnectionGet(req, st)
      [] req.h = "blackmyna" -> BlackmynaGet(req, st)
      [] req.h = "smscentral" -> SMSCentralGet(req, st)
      [] req.h = "nexmo" -> NexmoGet(req, st)
      [] req.h = "verboice" -> VerboiceHandle(req, st)
      [] req.h = "vumi" -> VumiHandle(req, st)
      [] req.h = "clickatell" -> ClickatellPost(req, st)
      [] req.h = "plivo" -> PlivoPost(req, st)
      [] req.h = "mage" -> MagePost(req, st)
      [] req.h = "start" -> StartPost(req, st)
      [] req.h = "chikka" -> ChikkaPost(req, st)
      [] req.h = "jasmin" -> JasminHandle(req, st)
      [] req.h = "mblox" -> MbloxHandle(req, st)
      [] req.h = "viber" -> ViberHandle(req, st)
      [] req.h = "line" -> LinePost(req, st)
      [] req.h = "globe" -> GlobeHandle(req, st)
      [] req.h = "facebook" -> FacebookHandle(req, st)
      [] OTHER -> TelegramPost(req, st)

\* the status of every message that was there before the request is as it was
StatusesKept == \A i \in 1..Len(last.prev) : msgs[i].status = last.prev[i].status

\* the request carries a signature and it is the one the channel's token gives
SignedRight(req) == Has(req, "sig") /\ Get(req, "sig") = ChanToken

\* C1: a request to the TwiML API, Twilio or Twilio Messaging Service handler
\* whose signature does not validate creates no message and changes the
\* status of none, whatever its other fields are
C1_InvalidSignatureNeverMutates ==
    (last.req.h \in {"twiml_api", "twilio", "twilio_messaging_service"}
        /\ ~SignedRight(last.req))
    => msgs = last.prev

\* an inbound message with an invalid signature reached the signature check
\* and was rejected there
C1_Witness ==
    /\ last.req.h \in {"twiml_api", "twilio", "twilio_messaging_service"}
    /\ last.req.action \in {"received", "receive"}
    /\ ~SignedRight(last.req)
    /\ last.resp.exc = "ValidationError: Invalid request signature"
    /\ msgs = last.prev

\* C2: a message becomes SENT only when its status was PENDING, QUEUED or
\* WIRED; a DELIVERED or FAILED message is never set back to SENT
C2_SentOnlyFromPendingQueuedWired ==
    \A i \in 1..Len(last.prev) :
        (msgs[i].status = SENT /\ last.prev[i].status # SENT)
            => last.prev[i].status \in {PENDING, QUEUED, WIRED}

\* both workers have finished, one ran a callback for status a and the other
\* one for status b, on the same key
BothDone(a, b) ==
    /\ Len(procs) = 2
    /\ \A p \in DOMAIN procs : procs[p].pc = "done"
    /\ {procs[p].status : p \in DOMAIN procs} = {a, b}
    /\ procs[1].key = procs[2].key

\* C3: when a SENT callback and a DELIVERED callback for the same message
\* run concurrently, every interleaving ends with the message DELIVERED
C3_ConcurrentSentDeliveredEndsDelivered ==
    BothDone(SENT, DELIVERED)
    => \A i \in ConcMatch(procs[1].h, Cur, procs[1].key) : msgs[i].status = DELIVERED

\* C4: when a DELIVERED callback and a FAILED callback for the same key run
\* concurrently, every interleaving ends as some serial order does: all the
\* messages the key matches are DELIVERED, or all of them are FAILED
C4_ConcurrentDeliveredFailedSerializable ==
    BothDone(DELIVERED, FAILED)
    => \E s \in {DELIVERED, FAILED} :
          \A i \in ConcMatch(procs[1].h, Cur, procs[1].key) : msgs[i].status = s

\* a DELIVERED callback for the first message of the channel, one for each
\* adapter that has a code for DELIVERED, with the channel type it needs
DeliveredCallbacks ==
    LET req(t, h, action, uuid, p) == [type |-> t, req |-> MkReq(h, action, uuid, p, NoEnv)]
        twiml(t, h, uuid) ==
            [type |-> t,
             req |-> MkReq(h, "callback", uuid,
                           [To |-> WithPlus(ChanDigits), action |-> "callback", id |-> "1",
                            SmsStatus |-> "delivered", sig |-> ChanToken],
                           [connected |-> TRUE, flow |-> FALSE])]
        vumi(t, transport) ==
            req(t, "vumi", "event", ChanUuid,
                [json |-> "ok", transport_type |-> transport, user_message_id |-> "e1",
                 event_type |-> "delivery_report", delivery_status |-> "delivered"])
        route == [len36 |-> TRUE, val |-> ChanUuid]
    IN  {twiml(TYPE.TWIML, "twiml_api", ChanUuid), twiml(TYPE.TWILIO, "twilio", <<>>),
         req(TYPE.EXTERNAL, "external", "delivered", route, [id |-> "1"]),
         req(TYPE.SHAQODOON, "shaqodoon", "delivered", route, [id |-> "1"]),
         req(TYPE.M3TECH, "m3tech", "delivered", route, [id |-> "1"]),
         req(TYPE.KANNEL, "kannel", "status", ChanUuid, [id |-> "1", status |-> "1"]),
         req(TYPE.AFRICAS_TALKING, "africastalking", "delivery", ChanUuid,
             [id |-> "e1", status |-> "Success"]),
         req(TYPE.ZENVIA, "zenvia", "status", ChanUuid, [id |-> "1", status |-> "120"]),
         req(TYPE.INFOBIP, "infobip", "delivered", ChanUuid,
             [xml |-> "ok", message |-> "m", id |-> "e1", status |-> "DELIVERED"]),
         req(TYPE.HUB9, "hub9", "delivered", ChanUuid, [messageid |-> "1", status |-> "10"]),
         req(TYPE.HIGH_CONNECTION, "hcnx", "status", ChanUuid,
             [ret_id |-> "1", status |-> "6"]),
         req(TYPE.BLACKMYNA, "blackmyna", "status", ChanUuid, [id |-> "e1", status |-> "1"]),
         req(TYPE.NEXMO, "nexmo", "status", OrgNexmoUuid,
             [to |-> Bare(ChanDigits), messageId |-> "e1", status |-> "delivered"]),
         vumi(TYPE.VUMI, "sms"), vumi(TYPE.VUMI_USSD, "ussd"),
         req(TYPE.CLICKATELL, "clickatell", "status", ChanUuid,
             [api_id |-> ChanApiId, apiMsgId |-> "e1", status |-> "004"]),
         req(TYPE.PLIVO, "plivo", "status", ChanUuid,
             [From |-> WithPlus(ChanDigits), To |-> WithPlus(SenderDigits),
              MessageUUID |-> "e1", Status |-> "delivered"]),
         req(TYPE.JASMIN, "jasmin", "status", ChanUuid,
             [id |-> "e1", dlvrd |-> "1", err |-> "0"]),
         req(TYPE.MBLOX, "mblox", "", ChanUuid,
             [json |-> "ok", type |-> "recipient_delivery_report_sms", batch_id |-> "e1",
              status |-> "Delivered"]),
         req(TYPE.VIBER, "viber", "status", ChanUuid, [json |-> "ok", message_token |-> "e1"]),
         req(TYPE.FACEBOOK, "facebook", "", ChanUuid,
             [json |-> "ok", entry |-> "e",
              messaging |-> <<[kind |-> "delivery", is_echo |-> FALSE,
                               recipient |-> WithPlus(ChanDigits), content |-> "",
                               payload |-> "", mid |-> "e1", timestamp |-> TRUE]>>])}

\* C5: the same DELIVERED callback applied twice to a message that is WIRED
\* or already DELIVERED: the first application leaves it DELIVERED and is
\* answered as a success, the second changes nothing and is answered as a
\* success too
C5_DeliveredTwiceIdempotent ==
    \A c \in DeliveredCallbacks :
        (Idle /\ HasType(c.type) /\ msgs[1].status \in {WIRED, DELIVERED})
        => LET first == Handle(c.req, Cur)
               second == Handle(c.req, first.st)
           IN /\ first.st.msgs[1].status = DELIVERED
              /\ first.resp.code = 200 /\ first.resp.exc = ""
              /\ second.st.msgs = first.st.msgs
              /\ second.resp.code = 200 /\ second.resp.exc = ""

\* the same Clickatell DELIVERED callback was handled on a message that was
\* already DELIVERED, and was answered as a success
C5_Witness ==
    /\ \E c \in DeliveredCallbacks : c.req = last.req /\ c.req.h = "clickatell"
    /\ last.prev[1].status = DELIVERED
    /\ msgs[1].status = DELIVERED
    /\ last.resp.code = 200

\* the request is a status callback whose provider code the table of the
\* adapter does not name
UnrecognizedCode(req) ==
    LET code(f) == IF Has(req, f) THEN Get(req, f) ELSE ""
        num(f) == IF Has(req, f) /\ IsNumeric(Get(req, f)) THEN ToInt(Get(req, f)) ELSE -1
    IN  CASE req.h \in {"twiml_api", "twilio"} /\ req.action = "callback" ->
                Has(req, "SmsStatus") /\ code("SmsStatus") \notin {"sent", "delivered", "failed"}
          [] req.h = "kannel" /\ req.action = "status" ->
                Has(req, "status") /\ KannelStatusChoice(code("status")) = ""
          [] req.h = "africastalking" /\ req.action = "delivery" ->
                Has(req, "status")
                /\ code("status") \notin {"Success", "Sent", "Buffered", "Rejected", "Failed"}
          [] req.h = "zenvia" /\ req.action = "status" ->
                num("status") # -1 /\ num("status") \notin {120, 111}
          [] req.h = "infobip" /\ req.action = "delivered" /\ req.method = "POST" ->
                Has(req, "status")
                /\ code("status") \notin {"DELIVERED", "SENT"} \cup InfobipFailedStatuses
          [] req.h = "hcnx" /\ req.action = "status" ->
                num("status") # -1 /\ num("status") \notin {4, 6, 2, 11, 12, 13, 14, 15, 16}
          [] req.h = "blackmyna" /\ req.action = "status" ->
                num("status") # -1 /\ num("status") \notin {8, 1, 2, 16}
          [] req.h = "nexmo" /\ req.action = "status" ->
                Has(req, "status")
                /\ code("status") \notin {"delivered", "accepted", "buffered", "expired",
                                          "failed"}
          [] req.h = "vumi" /\ req.action = "event" ->
                Has(req, "event_type")
                /\ code("event_type") \notin {"ack", "nack", "delivery_report"}
          [] req.h = "clickatell" /\ req.action = "status" ->
                Has(req, "status") /\ ClickatellStatusChoice(code("status")) = ""
          [] req.h = "plivo" /\ req.action = "status" ->
                Has(req, "Status") /\ PlivoStatusChoice(code("Status")) = ""
          [] req.h = "chikka" /\ code("message_type") = "outgoing" ->
                Has(req, "status") /\ code("status") \notin {"SENT", "FAILED"}
          [] req.h = "mblox" /\ code("type") = "recipient_delivery_report_sms" ->
                Has(req, "status")
                /\ code("status") \notin {"Delivered", "Dispatched", "Aborted", "Rejected",
                                          "Failed", "Expired"}
          [] OTHER -> FALSE

\* C6: a status callback whose provider code is not in the adapter's table
\* of known codes leaves the status of every message unchanged
C6_UnrecognizedCodeKeepsStatus == UnrecognizedCode(last.req) => StatusesKept

\* the status callback is routed to the channel, passes the adapter's checks
\* and its key is the key of a message of the table
AddressesMessage(req, table) ==
    LET code(f) == IF Has(req, f) THEN Get(req, f) ELSE ""
        ext(k) == \E i \in 1..Len(table) : table[i].external_id = k
    IN  /\ req.uuid = ChanUuid
        /\ req.method = "POST"
        /\ CASE req.h = "clickatell" ->
                    /\ ~Has(req, "api_id") \/ code("api_id") = ChanApiId
                    /\ Has(req, "apiMsgId") /\ ext(code("apiMsgId"))
             [] req.h = "plivo" ->
                    /\ Has(req, "From") /\ Has(req, "To") /\ Has(req, "MessageUUID")
                    /\ Get(req, "From") \in {WithPlus(ChanDigits), Bare(ChanDigits)}
                    /\ ext(IF Has(req, "ParentMessageUUID") THEN code("ParentMessageUUID")
                           ELSE code("MessageUUID"))
             [] req.h = "vumi" ->
                    /\ HasType(TYPE.VUMI_USSD) <=> code("transport_type") = "ussd"
                    /\ code("json") = "ok"
                    /\ Has(req, "user_message_id") /\ ext(code("user_message_id"))
             [] req.h = "kannel" ->
                    Has(req, "id") /\ IsNumeric(code("id"))
                    /\ ToInt(code("id")) \in 1..Len(table)
             [] OTHER -> FALSE

\* C7: a status callback that addresses an existing message but carries an
\* unrecognized provider code is answered with a 200 and the status of the
\* message is unchanged
C7_UnrecognizedCodeAcknowledged ==
    (UnrecognizedCode(last.req) /\ AddressesMessage(last.req, last.prev))
    => (last.resp.code = 200 /\ StatusesKept)

\* the fields the action of the adapter requires, as its own check or its
\* own error message names them
RequiredFields(req) ==
    LET of(h, action) == req.h = h /\ req.action = action
        typed(h, f, v) == req.h = h /\ Has(req, f) /\ Get(req, f) = v
    IN  CASE of("vumi", "event") -> {"event_type", "user_message_id"}
          [] of("vumi", "receive") -> {"timestamp", "from_addr", "content", "message_id"}
          [] of("kannel", "status") -> {"id", "status"}
          [] of("kannel", "receive") -> {"message", "sender", "id", "ts"}
          [] of("clickatell", "status") -> {"apiMsgId", "status"}
          [] of("clickatell", "receive") -> {"from", "text", "moMsgId", "timestamp"}
          [] of("plivo", "status") -> {"From", "To", "MessageUUID", "Status"}
          [] of("plivo", "receive") -> {"From", "To", "MessageUUID", "Text"}
          [] of("jasmin", "status") -> {"id", "dlvrd", "err"}
          [] of("jasmin", "receive") -> {"content", "coding", "from", "to", "id"}
          [] of("africastalking", "delivery") -> {"status", "id"}
          [] of("africastalking", "callback") -> {"from", "text"}
          [] of("zenvia", "status") -> {"status", "id"}
          [] of("zenvia", "receive") -> {"date", "from", "msg"}
          [] of("blackmyna", "receive") -> {"to", "from", "text"}
          [] of("smscentral", "receive") -> {"mobile", "message"}
          [] of("viber", "receive") -> {"message_token", "phone_number", "time", "message"}
          [] of("start", "receive") -> {"request_id", "from", "body"}
          [] typed("chikka", "message_type", "outgoing") -> {"message_id", "status"}
          [] typed("chikka", "message_type", "incoming") ->
                {"request_id", "mobile_number", "message", "timestamp"}
          [] typed("mblox", "type", "recipient_delivery_report_sms") -> {"batch_id", "status"}
          [] typed("mblox", "type", "mo_text") -> {"id", "from", "to", "body", "received_at"}
          [] req.h \in {"twiml_api", "twilio"} /\ req.action = "received"
                /\ ~Has(req, "CallStatus") -> {"To", "From", "Body"}
          [] of("twilio_messaging_service", "receive") -> {"From", "Body"}
          [] req.h = "telegram" -> {"message", "date"}
          [] OTHER -> {}

\* C8: a payload that lacks exactly one of the fields its action requires
\* is answered with a 4xx response and no message is created or modified
C8_MissingFieldRejected ==
    (last.req.method = "POST"
        /\ Cardinality(RequiredFields(last.req) \ DOMAIN last.req.p) = 1)
    => (last.resp.code \in 400..499 /\ msgs = last.prev)

\* C9: a request of an adapter that handles several items per request is
\* all-or-nothing: when it is answered with an error, no message of the
\* request has been created
C9_ErrorCreatesNothing ==
    (last.req.h \in {"globe", "facebook", "twiml_api", "twilio", "telegram"}
        /\ last.resp.code >= 400)
    => Len(msgs) = Len(last.prev)

\* C10: a receive payload with all its required fields that the adapter
\* answers as a success has created exactly one message: inbound and on
\* the channel of the request
C10_ReceiveCreatesExactlyOne ==
    (RequiredFields(last.req) # {}
        /\ RequiredFields(last.req) \subseteq DOMAIN last.req.p
        /\ last.req.action \in {"receive", "received", "callback", ""}
        /\ ~UnrecognizedCode(last.req)
        /\ ~(last.req.h = "chikka" /\ Get(last.req, "message_type") = "outgoing")
        /\ ~(last.req.h = "mblox" /\ Get(last.req, "type") # "mo_text")
        /\ (Has(last.req, "Body") => Get(last.req, "Body") # "")
        /\ last.resp.code \in {200, 201})
    => /\ Len(msgs) = Len(last.prev) + 1
       /\ msgs[Len(msgs)].direction = INCOMING
       /\ msgs[Len(msgs)].channel = ChanUuid

\* the channel types the lookup of the handler class is meant to accept
HandlerTypes(h) ==
    CASE h = "twiml_api" -> {TYPE.TWIML}
      [] h = "twilio" -> {TYPE.TWILIO}
      [] h = "twilio_messaging_service" -> {TYPE.TWILIO_MESSAGING_SERVICE}
      [] h \in {"external", "shaqodoon", "yo", "m3tech"} -> {ExternalChannelType(h)}
      [] h = "kannel" -> {TYPE.KANNEL}
      [] h = "africastalking" -> {TYPE.AFRICAS_TALKING}
      [] h = "zenvia" -> {TYPE.ZENVIA}
      [] h = "infobip" -> {TYPE.INFOBIP}
      [] h = "hub9" -> {TYPE.HUB9}
      [] h = "hcnx" -> {TYPE.HIGH_CONNECTION}
      [] h = "blackmyna" -> {TYPE.BLACKMYNA}
      [] h = "smscentral" -> {TYPE.SMSCENTRAL}
      [] h = "nexmo" -> {TYPE.NEXMO}
      [] h = "verboice" -> {TYPE.VERBOICE}
      [] h = "vumi" -> {TYPE.VUMI, TYPE.VUMI_USSD}
      [] h = "clickatell" -> {TYPE.CLICKATELL}
      [] h = "plivo" -> {TYPE.PLIVO}
      [] h = "mage" -> {TYPE.TWITTER}
      [] h = "start" -> {TYPE.START}
      [] h = "chikka" -> {TYPE.CHIKKA}
      [] h = "jasmin" -> {TYPE.JASMIN}
      [] h = "mblox" -> {TYPE.MBLOX}
      [] h = "viber" -> {TYPE.VIBER}
      [] h = "line" -> {TYPE.LINE}
      [] h = "globe" -> {TYPE.GLOBE}
      [] h = "facebook" -> {TYPE.FACEBOOK}
      [] h = "telegram" -> {TYPE.TELEGRAM}
      [] OTHER -> {}

\* C11: every message the request just handled has created or changed is on
\* a channel that is active, has an organization and has the provider type
\* of the handler that received the request
C11_ChannelActiveOrgTyped ==
    \A i \in 1..Len(msgs) :
        (i > Len(last.prev) \/ msgs[i] # last.prev[i])
        => /\ channels[msgs[i].channel].is_active
           /\ channels[msgs[i].channel].org # "none"
           /\ channels[msgs[i].channel].channel_type \in HandlerTypes(last.req.h)

\* the route of the request names a channel by uuid or by address, and no
\* active channel has that uuid or address
NoActiveChannel(req) ==
    LET active(u) == channels[u].is_active
    IN  CASE req.h \in {"external", "shaqodoon", "yo", "m3tech"} ->
                ~\E u \in DOMAIN channels :
                    /\ active(u)
                    /\ IF req.uuid.len36 THEN u = req.uuid.val
                       ELSE channels[u].address \in {req.uuid.val, PrependPlus(req.uuid.val)}
          [] req.h = "nexmo" ->
                /\ Has(req, "to") /\ Has(req, "messageId")
                /\ ~\E u \in DOMAIN channels :
                      /\ active(u)
                      /\ channels[u].address \in {Get(req, "to"), PrependPlus(Get(req, "to"))}
          [] req.h \in {"none", "twilio", "mage"} -> FALSE
          [] OTHER -> ~\E u \in DOMAIN channels : u = req.uuid /\ active(u)

\* C12: a request, rightly signed where the provider signs, whose channel
\* uuid or address matches no active channel is answered with a channel-not-found error and has no side effect: the
\* messages are as they were and handling it fires no trigger or task
C12_ChannelMissNoSideEffects ==
    (NoActiveChannel(last.req)
        /\ (last.req.h \in {"twiml_api", "twilio_messaging_service"}
                => SignedRight(last.req)))
    => /\ last.resp.code \in {400, 404}
       /\ msgs = last.prev
       /\ Handle(last.req, Store(last.prev, contacts, {})).st.events = {}

\* the request is a status callback that carries its lookup key and its
\* status code, and the key matches no message of the table: pk is TRUE when the key is a message id,
\* FALSE when it is the provider's external id
LookupMiss(req, table) ==
    LET coded(c) == \A f \in c : Has(req, f)
        nopk(f) == /\ Has(req, f)
                   /\ ~(IsNumeric(Get(req, f)) /\ ToInt(Get(req, f)) \in 1..Len(table))
        noext(f) == /\ Has(req, f)
                    /\ ~\E i \in 1..Len(table) : table[i].external_id = Get(req, f)
        of(h, action) == req.h = h /\ req.action = action /\ req.method = "POST"
    IN  CASE req.h \in {"twiml_api", "twilio"} /\ req.action = "callback" ->
                coded({"SmsStatus"}) /\ nopk("id")
          [] req.h \in {"external", "shaqodoon", "m3tech"}
                /\ req.action \in {"sent", "delivered", "failed"} -> nopk("id")
          [] of("kannel", "status") -> coded({"status"}) /\ nopk("id")
          [] of("zenvia", "status") -> coded({"status"}) /\ nopk("id")
          [] of("hub9", "delivered") -> coded({"status"}) /\ nopk("messageid")
          [] of("hcnx", "status") -> coded({"status"}) /\ nopk("ret_id")
          [] req.h = "chikka" /\ Has(req, "message_type")
                /\ Get(req, "message_type") = "outgoing" ->
                coded({"status"}) /\ nopk("message_id")
          [] of("africastalking", "delivery") -> coded({"status"}) /\ noext("id")
          [] of("infobip", "delivered") -> coded({"status"}) /\ noext("id")
          [] of("blackmyna", "status") -> coded({"status"}) /\ noext("id")
          [] of("nexmo", "status") -> coded({"status", "to"}) /\ noext("messageId")
          [] of("vumi", "event") -> coded({"event_type"}) /\ noext("user_message_id")
          [] of("clickatell", "status") -> coded({"status"}) /\ noext("apiMsgId")
          [] of("plivo", "status") ->
                coded({"Status", "From", "To"}) /\
                IF Has(req, "ParentMessageUUID") THEN noext("ParentMessageUUID")
                ELSE noext("MessageUUID")
          [] of("jasmin", "status") -> coded({"dlvrd", "err"}) /\ noext("id")
          [] req.h = "mblox" /\ Has(req, "type")
                /\ Get(req, "type") = "recipient_delivery_report_sms" ->
                coded({"status"}) /\ noext("batch_id")
          [] of("viber", "status") -> noext("message_token")
          [] req.h = "facebook" /\ Has(req, "messaging") ->
                /\ Len(Get(req, "messaging")) = 1
                /\ Get(req, "messaging")[1].kind = "delivery"
                /\ ~\E i \in 1..Len(table) :
                        table[i].external_id = Get(req, "messaging")[1].mid
          [] OTHER -> FALSE

C14_DeliveredFromAnyStatus ==
    (\E c \in DeliveredCallbacks : c.req = last.req /\ HasType(c.type))
    => msgs[1].status = DELIVERED

\* a FAILED callback for the first message of the channel, one for each
\* adapter whose table has a code for FAILED, with the channel type it needs
FailedCallbacks ==
    LET req(t, h, action, uuid, p) == [type |-> t, req |-> MkReq(h, action, uuid, p, NoEnv)]
        twiml(t, h, uuid) ==
            [type |-> t,
             req |-> MkReq(h, "callback", uuid,
                           [To |-> WithPlus(ChanDigits), action |-> "callback", id |-> "1",
                            SmsStatus |-> "failed", sig |-> ChanToken],
                           [connected |-> TRUE, flow |-> FALSE])]
        route == [len36 |-> TRUE, val |-> ChanUuid]
    IN  {twiml(TYPE.TWIML, "twiml_api", ChanUuid), twiml(TYPE.TWILIO, "twilio", <<>>),
         req(TYPE.EXTERNAL, "external", "failed", route, [id |-> "1"]),
         req(TYPE.SHAQODOON, "shaqodoon", "failed", route, [id |-> "1"]),
         req(TYPE.M3TECH, "m3tech", "failed", route, [id |-> "1"]),
         req(TYPE.KANNEL, "kannel", "status", ChanUuid, [id |-> "1", status |-> "2"]),
         req(TYPE.AFRICAS_TALKING, "africastalking", "delivery", ChanUuid,
             [id |-> "e1", status |-> "Failed"]),
         req(TYPE.INFOBIP, "infobip", "delivered", ChanUuid,
             [xml |-> "ok", message |-> "m", id |-> "e1", status |-> "REJECTED"]),
         req(TYPE.HUB9, "hub9", "delivered", ChanUuid, [messageid |-> "1", status |-> "21"]),
         req(TYPE.HIGH_CONNECTION, "hcnx", "status", ChanUuid,
             [ret_id |-> "1", status |-> "2"]),
         req(TYPE.BLACKMYNA, "blackmyna", "status", ChanUuid, [id |-> "e1", status |-> "2"]),
         req(TYPE.NEXMO, "nexmo", "status", OrgNexmoUuid,
             [to |-> Bare(ChanDigits), messageId |-> "e1", status |-> "failed"]),
         req(TYPE.CLICKATELL, "clickatell", "status", ChanUuid,
             [api_id |-> ChanApiId, apiMsgId |-> "e1", status |-> "005"]),
         req(TYPE.PLIVO, "plivo", "status", ChanUuid,
             [From |-> WithPlus(ChanDigits), To |-> WithPlus(SenderDigits),
              MessageUUID |-> "e1", Status |-> "rejected"]),
         req(TYPE.CHIKKA, "chikka", "", ChanUuid,
             [message_type |-> "outgoing", message_id |-> "1", status |-> "FAILED"]),
         req(TYPE.JASMIN, "jasmin", "status", ChanUuid,
             [id |-> "e1", dlvrd |-> "0", err |-> "1"]),
         req(TYPE.MBLOX, "mblox", "", ChanUuid,
             [json |-> "ok", type |-> "recipient_delivery_report_sms", batch_id |-> "e1",
              status |-> "Failed"])}

C16_EveryMatchUpdated ==
    (/\ last.req.h \in {"africastalking", "infobip", "blackmyna", "nexmo", "vumi", "clickatell",
                        "plivo", "jasmin", "mblox", "viber", "facebook"}
     /\ last.resp.code = 200
     /\ Len(msgs) = Len(last.prev)
     /\ msgs[1].status # last.prev[1].status)
    => \A i \in 1..Len(last.prev) :
           (/\ last.prev[i].channel = last.prev[1].channel
            /\ last.prev[i].external_id = last.prev[1].external_id)
           => msgs[i].status = msgs[1].status

\* C17: when the only worker has stopped partway through a status callback,
\* either every message the callback was to update has the new status or
\* every one of them is as it was before the callback
C17_NeverPartiallyApplied ==
    \A p \in DOMAIN procs :
        (Len(procs) = 1 /\ procs[p].pc = "stopped")
        => LET matched == {i \in ConcMatch(procs[p].h, Cur, procs[p].key) :
                              procs[p].status = SENT
                              => last.prev[i].status \in {PENDING, QUEUED, WIRED}}
           IN \/ \A i \in matched : msgs[i].status = procs[p].status
              \/ \A i \in matched : msgs[i].status = last.prev[i].status

\* C18: when a receive request that carries the provider's id of the message
\* was accepted and a message was created for it, the created message has
\* that id as its external id
C18_ReceiveStoresExternalId ==
    LET req == last.req
        field == CASE req.h = "start" -> "request_id"
                   [] req.h = "vumi" /\ req.action = "receive" -> "message_id"
                   [] req.h = "nexmo" /\ req.action = "receive" -> "messageId"
                   [] req.h = "kannel" /\ req.action = "receive" -> "id"
                   [] req.h = "clickatell" /\ req.action = "receive" -> "moMsgId"
                   [] req.h = "plivo" /\ req.action = "receive" -> "MessageUUID"
                   [] req.h = "jasmin" /\ req.action = "receive" -> "id"
                   [] req.h = "viber" /\ req.action = "receive" -> "message_token"
                   [] OTHER -> ""
    IN  (/\ field # ""
         /\ Has(req, field)
         /\ last.resp.code \in {200, 201}
         /\ Len(msgs) = Len(last.prev) + 1)
        => msgs[Len(msgs)].external_id = Get(req, field)

\* C19: a complete receive request of an address-matching adapter for the
\* channel of the route is accepted, and its message created, exactly when
\* its destination and the channel's address are equal once a leading '+' is
\* taken off both; otherwise it is answered with a 4xx and nothing is created
C19_AddressMatchNormalized ==
    LET req == last.req
        field == CASE req.h = "infobip" /\ req.action = "received" /\ req.method = "GET"
                        -> "receiver"
                   [] req.h = "hub9" /\ req.action = "received" -> "sendto"
                   [] req.h = "blackmyna" /\ req.action = "receive" -> "to"
                   [] req.h = "plivo" /\ req.action = "receive" -> "To"
                   [] OTHER -> ""
        needed == CASE req.h = "infobip" -> {"sender", "text", "receiver"}
                    [] req.h = "hub9" -> {"original", "sendto", "message"}
                    [] req.h = "blackmyna" -> {"to", "from", "text"}
                    [] req.h = "plivo" -> {"From", "To", "MessageUUID", "Text"}
                    [] OTHER -> {}
        strip(num) == IF StartsWithPlus(num) THEN Tail(num) ELSE num
    IN  (/\ field # ""
         /\ \A f \in needed : Has(req, f)
         /\ req.uuid = ChanUuid
         /\ Get(req, field) # <<>>)
        => IF strip(Get(req, field)) = strip(channels[ChanUuid].address)
           THEN last.resp.code = 200 /\ Len(msgs) = Len(last.prev) + 1
           ELSE last.resp.code \in 400..499 /\ msgs = last.prev

\* C20: when a request for an existing channel was turned down because its
\* destination is not the channel's address, or because the key of the
\* organization in its route is wrong, its answer differs in status code or
\* message from the answer the same handler gives the same request when no
\* channel is found for it
C20_MissAndAuthFailureDiffer ==
    LET req == last.req
        has(fs) == \A f \in fs : Has(req, f)
        plus(num) == IF StartsWithPlus(num) THEN num ELSE PrependPlus(num)
        address == channels[ChanUuid].address
        mismatch ==
            /\ req.h \in {"infobip", "hub9", "blackmyna", "plivo"}
            /\ req.uuid = ChanUuid
            /\ \/ /\ req.h = "infobip" /\ req.action = "received" /\ req.method = "GET"
                  /\ has({"sender", "text", "receiver"})
                  /\ address # PrependPlus(Get(req, "receiver"))
               \/ /\ req.h = "hub9" /\ req.action = "received" /\ has({"sendto"})
                  /\ address # PrependPlus(Get(req, "sendto"))
               \/ /\ req.h = "blackmyna" /\ req.action = "receive" /\ has({"to", "from", "text"})
                  /\ address # Get(req, "to")
               \/ /\ req.h = "plivo" /\ req.action = "receive"
                  /\ has({"From", "To", "MessageUUID", "Text"})
                  /\ Get(req, "To") # <<>>
                  /\ address # plus(Get(req, "To"))
        wrongkey ==
            /\ req.h = "nexmo" /\ has({"to", "messageId"})
            /\ address = PrependPlus(Get(req, "to"))
            /\ req.uuid # OrgNexmoUuid
        \* the same request with no channel for it
        nochannel == IF req.h = "nexmo"
                     THEN [req EXCEPT !.uuid = OrgNexmoUuid, !.p.to = Bare(OtherDigits)]
                     ELSE [req EXCEPT !.uuid = UnknownUuid]
        miss == Handle(nochannel, Store(last.prev, contacts, {})).resp
    IN  (mismatch \/ wrongkey)
        => <<last.resp.code, last.resp.body>> # <<miss.code, miss.body>>

\* C21: a request for the channel of the route whose action is one its handler
\* has no branch for (Infobip's GET and Hub9 with 'sent' or 'failed') is
\* answered with a 4xx and leaves the messages as they were
C21_UnhandledActionInert ==
    LET req == last.req
    IN  (/\ \/ req.h = "infobip" /\ req.method = "GET"
            \/ req.h = "hub9"
         /\ req.action \in {"sent", "failed"}
         /\ req.uuid = ChanUuid
         /\ last.resp.exc = "")
        => /\ last.resp.code \in 400..499
           /\ msgs = last.prev

\* C22: a 'received' or 'callback' request to a Twilio-family handler that is
\* not a ringing call, whose channel or message is found and whose account is
\* connected, and whose signature does not validate, ends in the raised
\* ValidationError "Invalid request signature": not in a 4xx, not in a success
C22_InvalidSignatureRaises ==
    LET req == last.req
        action == IF req.h = "twilio_messaging_service" THEN req.action
                  ELSE IF Has(req, "action") THEN Get(req, "action") ELSE "received"
        found ==
            CASE action = "callback" ->
                    /\ req.h # "twilio_messaging_service"
                    /\ Has(req, "id") /\ IsNumeric(Get(req, "id"))
                    /\ ToInt(Get(req, "id")) \in 1..Len(last.prev)
              [] action = "received" /\ req.h = "twiml_api" ->
                    req.uuid = ChanUuid /\ HasType(TYPE.TWIML)
              [] action = "received" /\ req.h = "twilio" ->
                    Get(req, "To") = channels[ChanUuid].address
              [] action = "receive" /\ req.h = "twilio_messaging_service" ->
                    req.uuid = ChanUuid /\ HasType(TYPE.TWILIO_MESSAGING_SERVICE)
              [] OTHER -> FALSE
    IN  (/\ req.h \in {"twiml_api", "twilio", "twilio_messaging_service"}
         /\ req.h # "twilio_messaging_service" => Has(req, "To") /\ ~Has(req, "CallSid")
         /\ found
         /\ req.env.connected
         /\ ~SignedRight(req))
        => /\ last.resp.exc = "ValidationError: Invalid request signature"
           /\ last.resp.code \notin 200..499

\* a status callback for an existing message came with a wrong signature and
\* ended in the raised ValidationError
C22_Witness ==
    /\ last.req.h \in {"twiml_api", "twilio"}
    /\ Has(last.req, "action") /\ Get(last.req, "action") = "callback"
    /\ Has(last.req, "id") /\ Get(last.req, "id") = "1"
    /\ last.req.env.connected
    /\ ~SignedRight(last.req)
    /\ last.resp.exc = "ValidationError: Invalid request signature"

\* C23: every handled request ends in a response the handler returned: no
\* exception other than the signature's ValidationError leaves the handler
C23_NoExceptionEscapes ==
    last.resp.exc \in {"", "ValidationError: Invalid request signature"}

\* C24: a receive request for the channel of the route that has every field
\* but a usable timestamp (the timestamp is absent or cannot be parsed) is
\* accepted and its message is created
C24_BadTimestampStillCreates ==
    LET req == last.req
        ts == CASE req.h = "zenvia" -> "date"
                [] req.h = "hcnx" -> "RECEPTION_DATE"
                [] OTHER -> ""
        needed == CASE req.h = "zenvia" -> {"from", "msg"}
                    [] req.h = "hcnx" -> {"TO", "FROM", "MESSAGE"}
                    [] OTHER -> {}
    IN  (/\ ts # ""
         /\ req.action = "receive"
         /\ req.uuid = ChanUuid
         /\ \A f \in needed : Has(req, f)
         /\ ~Has(req, ts) \/ Get(req, ts) # "ts_ok")
        => /\ last.resp.code = 200
           /\ Len(msgs) = Len(last.prev) + 1

\* C25: while the organization of the channel is anonymized, no contact is
\* created for the sender of an inbound Telegram or Facebook message
C25_AnonCreatesNoContact ==
    channels[ChanUuid].is_anon
    => /\ URNFromParts("telegram", Bare(SenderDigits)) \notin contacts
       /\ URNFromParts("facebook", Bare(SenderDigits)) \notin contacts

\* C26: no handled request removes or replaces a message, and no status is
\* written by a query on the status column instead of status_sent(),
\* status_delivered() or fail()
C26_OnlyGrowsOnlyStatusOperations ==
    /\ Len(msgs) >= Len(last.prev)
    /\ \A i \in 1..Len(last.prev) :
           [msgs[i] EXCEPT !.status = last.prev[i].status] = last.prev[i]
    /\ (\E i \in 1..Len(last.prev) : msgs[i].status # last.prev[i].status)
       => "queryset_update_status"
              \notin Handle(last.req, Store(last.prev, contacts, {})).st.events

\* C27: every change of status made by a handled request is an edge of the
\* lifecycle: PENDING to QUEUED to WIRED to SENT to DELIVERED, WIRED to FAILED,
\* SENT to FAILED; DELIVERED and FAILED are left by no request
C27_LifecycleEdgesOnly ==
    \A i \in 1..Len(last.prev) :
        \/ msgs[i].status = last.prev[i].status
        \/ <<last.prev[i].status, msgs[i].status>>
               \in {<<PENDING, QUEUED>>, <<QUEUED, WIRED>>, <<WIRED, SENT>>, <<SENT, DELIVERED>>,
                    <<WIRED, FAILED>>, <<SENT, FAILED>>}

\* C28: under fair scheduling every status callback a worker has taken is
\* eventually finished, whatever the other workers are doing
C28_EveryRequestCompletes ==
    \A p \in 1..MaxProcs :
        (p \in DOMAIN procs) ~> (p \in DOMAIN procs /\ procs[p].pc = "done")

\* two callbacks were in flight together and both have finished
C28_Witness ==
    /\ Len(procs) = 2
    /\ \A p \in DOMAIN procs : procs[p].pc = "done"
    /\ msgs # last.prev

\* C29: a Vumi 'delivery_report' event with delivery_status 'failed' for a
\* message of the channel leaves every message as it was, whatever its status,
\* and is answered "Message Status Updated"
C29_VumiFailedReportIgnored ==
    LET req == last.req
    IN  (/\ req.h = "vumi" /\ req.action = "event" /\ req.method = "POST"
         /\ req.uuid = ChanUuid
         /\ Has(req, "event_type") /\ Get(req, "event_type") = "delivery_report"
         /\ Has(req, "delivery_status") /\ Get(req, "delivery_status") = "failed"
         /\ HasType(IF Has(req, "transport_type") /\ Get(req, "transport_type") = "ussd"
                    THEN TYPE.VUMI_USSD ELSE TYPE.VUMI)
         /\ Has(req, "user_message_id")
         /\ \E i \in 1..Len(last.prev) :
                last.prev[i].external_id = Get(req, "user_message_id"))
        => /\ msgs = last.prev
           /\ last.resp.code = 200
           /\ last.resp.body = "Message Status Updated"

\* a 'failed' delivery report was handled for a WIRED message, which is
\* still WIRED
C29_Witness ==
    /\ last.req.h = "vumi" /\ last.req.action = "event"
    /\ Has(last.req, "event_type") /\ Get(last.req, "event_type") = "delivery_report"
    /\ Has(last.req, "delivery_status") /\ Get(last.req, "delivery_status") = "failed"
    /\ last.prev[1].status = WIRED /\ msgs[1].status = WIRED
    /\ last.resp.body = "Message Status Updated"

C31_NexmoAbsentParametersAnswered ==
    LET req == last.req
        test == \/ req.action = "receive" /\ ~Has(req, "to")
                \/ req.action = "status" /\ ~Has(req, "messageId")
        matched == /\ Has(req, "to")
                   /\ \E u \in DOMAIN channels :
                        /\ channels[u].address \in {Get(req, "to"), PrependPlus(Get(req, "to"))}
                        /\ Dispatchable(channels[u])
                        /\ channels[u].channel_type = TYPE.NEXMO
                        /\ channels[u].nexmo_uuid = req.uuid
        unchanged == /\ msgs = last.prev
                     /\ Handle(req, Store(last.prev, contacts, {})).st.events = {}
    IN  req.h = "nexmo"
        => /\ test => last.resp.code = 200 /\ unchanged
           /\ (~test /\ ~matched) => unchanged
           /\ last.resp.exc = ""

\* C32: a Clickatell request for the channel of the route whose api_id is
\* not the API id configured on the channel is answered 400 and no message
\* is created or updated by it; a request that carries no api_id is never
\* rejected for its API id
C32_ClickatellApiIdChecked ==
    LET req == last.req
        rejected == /\ last.resp.code = 400
                    /\ last.resp.body = "Invalid API id for message delivery"
    IN  (/\ req.h = "clickatell"
         /\ ChannelByUuid(req.uuid, TYPE.CLICKATELL) # {})
        => /\ (Has(req, "api_id") /\ Get(req, "api_id") # channels[req.uuid].api_id)
              => /\ rejected
                 /\ msgs = last.prev
                 /\ Handle(req, Store(last.prev, contacts, {})).st.events = {}
           /\ ~Has(req, "api_id") => ~rejected

\* a delivery report for a stored message that is not yet delivered came
\* with a foreign api_id and was rejected
C32_Witness ==
    /\ last.req.h = "clickatell"
    /\ last.req.action = "status"
    /\ last.req.uuid = ChanUuid
    /\ Has(last.req, "api_id") /\ Get(last.req, "api_id") # channels[ChanUuid].api_id
    /\ Has(last.req, "apiMsgId") /\ Get(last.req, "apiMsgId") = "e1"
    /\ Has(last.req, "status") /\ Get(last.req, "status") = "004"
    /\ \E i \in 1..Len(last.prev) :
          last.prev[i].external_id = "e1" /\ last.prev[i].status # DELIVERED
    /\ last.resp.code = 400

\* C33: a Mage POST whose Authorization header is not exactly the word
\* Token followed by MAGE_AUTH_TOKEN is answered 401 and enqueues no
\* handling task, fires no webhook event and schedules no follow trigger;
\* work is enqueued only by an authorized request whose ids are integers
C33_MageUnauthorizedEnqueuesNothing ==
    LET req == last.req
        authorized == /\ Has(req, "authorization")
                      /\ Get(req, "authorization") = <<"Token", MageAuthToken>>
        integer(f) == Has(req, f) /\ IsNumeric(Get(req, f))
        work == Handle(req, Store(last.prev, contacts, {})).st.events
    IN  (req.h = "mage" /\ req.method = "POST")
        => /\ ~authorized => /\ last.resp.code = 401
                             /\ work = {}
                             /\ msgs = last.prev
           /\ work # {}
              => /\ authorized
                 /\ req.action = "handle_message" => integer("message_id")
                 /\ req.action = "follow_notification"
                    => integer("channel_id") /\ integer("contact_urn_id")

\* a request to handle a stored message came with a wrong token and was
\* answered 401
C33_Witness ==
    /\ last.req.h = "mage"
    /\ last.req.method = "POST"
    /\ last.req.action = "handle_message"
    /\ Has(last.req, "authorization")
    /\ Get(last.req, "authorization") = <<"Token", "bad">>
    /\ Has(last.req, "message_id") /\ Get(last.req, "message_id") = "1"
    /\ last.resp.code = 401

\* C34: a Facebook GET returns the hub.challenge and schedules the
\* subscription of the channel exactly when it is a webhook verification
\* (hub.mode is subscribe) whose hub.verify_token is the secret of the
\* channel of the route; every other GET is answered 400 and schedules
\* nothing
C34_FacebookVerification ==
    LET req == last.req
        verified == /\ ChannelByUuid(req.uuid, TYPE.FACEBOOK) # {}
                    /\ Has(req, "hub_mode") /\ Get(req, "hub_mode") = "subscribe"
                    /\ Has(req, "hub_verify_token")
                    /\ Get(req, "hub_verify_token") = channels[req.uuid].secret
        scheduled == "fb_channel_subscribe"
                        \in Handle(req, Store(last.prev, contacts, {})).st.events
    IN  (req.h = "facebook" /\ req.method = "GET")
        => /\ msgs = last.prev
           /\ verified => /\ last.resp.code = 200
                          /\ last.resp.body = Get(req, "hub_challenge")
                          /\ scheduled
           /\ ~verified => /\ last.resp.code = 400
                           /\ ~scheduled

\* a verification with a wrong token was answered 400
C34_Witness ==
    /\ last.req.h = "facebook"
    /\ last.req.method = "GET"
    /\ last.req.uuid = ChanUuid
    /\ Has(last.req, "hub_mode") /\ Get(last.req, "hub_mode") = "subscribe"
    /\ Has(last.req, "hub_verify_token")
    /\ Get(last.req, "hub_verify_token") # channels[ChanUuid].secret
    /\ last.resp.code = 400

\* C35: an envelope that is marked is_echo or whose recipient is not the
\* address of the channel creates no message and no contact, and the
\* envelopes of every entry that has a 'messaging' array are processed, not
\* only those of the first such entry
C35_FacebookEchoRecipientAllEntries ==
    LET req == last.req
        arrays == (IF Has(req, "messaging") THEN <<Get(req, "messaging")>> ELSE <<>>)
                  \o (IF Has(req, "entry2") THEN <<Get(req, "entry2")>> ELSE <<>>)
        EnvelopesOf(k) == {arrays[k][i] : i \in DOMAIN arrays[k]}
        all == UNION {EnvelopesOf(k) : k \in DOMAIN arrays}
        count == LET n(k) == Len(arrays[k])
                 IN IF Len(arrays) = 0 THEN 0
                    ELSE IF Len(arrays) = 1 THEN n(1) ELSE n(1) + n(2)
        ignored(e) == \/ e.kind = "message" /\ e.is_echo
                      \/ e.kind \in {"message", "postback"}
                         /\ e.recipient # channels[req.uuid].address
        inbound(e) == /\ e.kind = "message" /\ ~e.is_echo
                      /\ e.recipient = channels[req.uuid].address
                      /\ e.content # "" /\ e.mid # NoExt /\ e.timestamp
        created == Handle(req, Store(last.prev, {}, {})).st.contacts
    IN  (/\ req.h = "facebook" /\ req.method = "POST"
         /\ ChannelByUuid(req.uuid, TYPE.FACEBOOK) # {}
         /\ Get(req, "json") = "ok" /\ Has(req, "entry"))
        => /\ (\A e \in all : ignored(e))
              => msgs = last.prev /\ created = {}
           /\ (\A e \in all : inbound(e))
              => Len(msgs) = Len(last.prev) + count

\* C36: no handled request changes the status of a message that was stored
\* as inbound: a delivery-status callback whose lookup key (external id or
\* internal id) matches an inbound message leaves that message as it was
C36_InboundStatusUntouched ==
    \A i \in 1..Len(last.prev) :
        last.prev[i].direction = INCOMING => msgs[i].status = last.prev[i].status

\* C37: the write of the provider's external id to a newly created inbound
\* message changes no other field of any message: a status that handling
\* gave the message after its creation is still there after the write, in
\* every interleaving
C37_ExternalIdWriteKeepsStatus ==
    [][\A i \in 1..Len(msgs) :
          msgs'[i].external_id # msgs[i].external_id
          => msgs'[i] = [msgs[i] EXCEPT !.external_id = msgs'[i].external_id]]_vars

\* handling marked the new message handled before its external id was
\* written, and the message is still handled after the write
C37_Witness ==
    \E p \in DOMAIN procs :
        /\ procs[p].pc = "done"
        /\ procs[p].found = "H"
        /\ msgs[procs[p].id].external_id = procs[p].ext
        /\ msgs[procs[p].id].status = "H"

\* C38: a Start receive request that is handled successfully is answered
\* 200 with exactly the body <answer type="async"><state>Accepted</state></answer>
\* and a Jasmin status or receive request that is handled successfully with
\* exactly ACK/Jasmin; a request gets these bodies only when its message was
\* created or its status was processed
C38_ExactReplyBodies ==
    LET req == last.req
        has(fs) == \A f \in fs : Has(req, f)
        found == ChannelByUuid(req.uuid, IF req.h = "start" THEN TYPE.START
                                         ELSE TYPE.JASMIN) # {}
        created == /\ Len(msgs) = Len(last.prev) + 1
                   /\ msgs[Len(msgs)].direction = INCOMING
                   /\ \A i \in 1..Len(last.prev) : msgs[i] = last.prev[i]
        matched == {i \in 1..Len(last.prev) :
                        last.prev[i].channel = req.uuid
                        /\ last.prev[i].external_id = Get(req, "id")}
        target == IF Get(req, "dlvrd") = "1" THEN DELIVERED
                  ELSE IF Get(req, "err") = "1" THEN FAILED ELSE ""
        processed == /\ Len(msgs) = Len(last.prev)
                     /\ \A i \in 1..Len(msgs) :
                           msgs[i] = IF i \in matched /\ target # ""
                                     THEN [last.prev[i] EXCEPT !.status = target]
                                     ELSE last.prev[i]
        answered(body) == last.resp.code = 200 /\ last.resp.body = body
        StartAnswer == "<answer type=\"async\"><state>Accepted</state></answer>"
    IN  /\ (req.h = "start" /\ req.method = "POST")
           => IF found /\ Get(req, "xml") = "ok" /\ has({"request_id", "from", "body"})
              THEN answered(StartAnswer) /\ created
              ELSE last.resp.body # StartAnswer /\ msgs = last.prev
        /\ (req.h = "jasmin" /\ req.method = "POST")
           => IF found /\ req.action = "status" /\ has({"id", "dlvrd", "err"})
                 /\ matched # {}
              THEN answered("ACK/Jasmin") /\ processed
              ELSE IF found /\ req.action = "receive"
                      /\ has({"content", "coding", "from", "to", "id"})
              THEN /\ answered("ACK/Jasmin") /\ created
                   /\ msgs[Len(msgs)].external_id = Get(req, "id")
              ELSE last.resp.body # "ACK/Jasmin" /\ msgs = last.prev

\* a Start message was created and answered with the XML envelope
C38_Witness ==
    /\ last.req.h = "start"
    /\ last.resp.code = 200
    /\ last.resp.body = "<answer type=\"async\"><state>Accepted</state></answer>"
    /\ Len(msgs) = Len(last.prev) + 1
    /\ msgs[Len(msgs)].text = "hello"

====
